---- MODULE Spec2Model ----
(***************************************************************************)
(* Verification model of the internet-sentiment-aggregator:                *)
(*   - the hashing engine (src/lib/utils/simhash.ts),                      *)
(*   - the URL canonicalizer and the deduplication engine                  *)
(*     (src/lib/processing/deduplicator.ts) over the dedupe_cache table,   *)
(*   - the pipeline orchestrator (src/lib/pipeline/simple-analyze.ts)      *)
(*     driven by the streaming route (src/app/api/analyze/stream/route.ts).*)
(***************************************************************************)
EXTENDS Integers, Sequences, FiniteSets, TLC

(***************************************************************************)
(* Generic sequence helpers.                                               *)
(***************************************************************************)
Range(s) == { s[i] : i \in 1..Len(s) }

RECURSIVE SeqsUpTo(_, _)
SeqsUpTo(S, n) ==
    IF n = 0 THEN { <<>> }
    ELSE LET shorter == SeqsUpTo(S, n - 1)
         IN  shorter \cup { Append(s, x) : s \in shorter, x \in S }

\* Array.prototype.filter by index predicate: the subsequence of s at the
\* positions in keep, in order.
RECURSIVE FilterIdx(_, _, _)
FilterIdx(s, keep, i) ==
    IF i > Len(s) THEN <<>>
    ELSE IF i \in keep THEN <<s[i]>> \o FilterIdx(s, keep, i + 1)
    ELSE FilterIdx(s, keep, i + 1)

(***************************************************************************)
(* Hashing engine.  A text is the sequence of its blank-separated words, a *)
(* word is a small number; word 0 is a word without any letter (digits,    *)
(* punctuation).  The empty sequence is an empty or all-blank string.      *)
(***************************************************************************)
HASH_BITS == 64
SHINGLE_SIZE == 3
HexDigits == 16

\* tokenize's normalisation: every character that is not a letter becomes a
\* blank, so a word without letters leaves no word.
Words(text) == SelectSeq(text, LAMBDA w : w # 0)

\* tokenize: overlapping word n-grams; fewer words than the shingle size
\* give the single joined string (the empty string when no word is left).
Tokenize(text) ==
    LET words == Words(text)
    IN  IF Len(words) < SHINGLE_SIZE THEN << words >>
        ELSE [ i \in 1..(Len(words) - SHINGLE_SIZE + 1) |->
                 SubSeq(words, i, i + SHINGLE_SIZE - 1) ]

\* hashToken: the first 64 bits of the md5 digest of the shingle.  md5 is
\* replaced by a fixed deterministic mixing function of the shingle's words;
\* the result is the function bit index (0 = least significant) -> 0/1.
RECURSIVE ShingleCode(_, _)
ShingleCode(sh, acc) ==
    IF sh = <<>> THEN acc
    ELSE ShingleCode(Tail(sh), (acc * 31 + Head(sh) * 7 + 3) % 65521)

HashToken(sh) ==
    LET code == ShingleCode(sh, 17)
    IN  [ i \in 0..(HASH_BITS - 1) |->
            (((code + 1) * (i + 3)) \div 7 + (code \div (i + 1)) + i * code) % 2 ]

\* Votes that count the set bits only: a clear bit does not vote against.
RECURSIVE CountSet(_, _, _)
CountSet(hashes, i, k) ==
    IF k > Len(hashes) THEN 0
    ELSE (IF hashes[k][i] = 1 THEN 1 ELSE 0) + CountSet(hashes, i, k + 1)

\* The sum of the votes of all shingles for bit i: +1 for a set bit, -1 else.
RECURSIVE Weight(_, _, _)
Weight(hashes, i, k) ==
    IF k > Len(hashes) THEN 0
    ELSE (IF hashes[k][i] = 1 THEN 1 ELSE -1) + Weight(hashes, i, k + 1)

\* simhash.toString(16).padStart(16, '0'): hex digit c (1 = most significant)
\* packs bits 4*(16-c)+3 .. 4*(16-c).
ToHex(bits) ==
    [ c \in 1..HexDigits |->
        LET lo == 4 * (HexDigits - c)
        IN  bits[lo] + 2 * bits[lo + 1] + 4 * bits[lo + 2] + 8 * bits[lo + 3] ]

ZeroHash == [ c \in 1..HexDigits |-> 0 ]

\* computeSimHash: an empty or all-blank text gives the zero hash; otherwise
\* (tokenize always returns at least one shingle) bit i is set iff its
\* weight is strictly greater than 0.
ComputeSimHash(text) ==
    IF text = <<>> THEN ZeroHash
    ELSE LET shingles == Tokenize(text)
             hashes   == [ k \in 1..Len(shingles) |-> HashToken(shingles[k]) ]
             bits     == [ i \in 0..(HASH_BITS - 1) |->
                             IF Weight(hashes, i, 1) > 0 THEN 1 ELSE 0 ]
         IN  ToHex(bits)

\* Number of set bits of a hex digit.
PopCount4(n) == (n % 2) + ((n \div 2) % 2) + ((n \div 4) % 2) + ((n \div 8) % 2)

\* Bitwise XOR of two hex digits.
Xor4(a, b) ==
    LET bit(x, j) == (x \div (2 ^ j)) % 2
    IN  ((bit(a, 0) + bit(b, 0)) % 2)
      + 2 * ((bit(a, 1) + bit(b, 1)) % 2)
      + 4 * ((bit(a, 2) + bit(b, 2)) % 2)
      + 8 * ((bit(a, 3) + bit(b, 3)) % 2)

RECURSIVE PopCountFrom(_, _, _)
PopCountFrom(h1, h2, c) ==
    IF c > Len(h1) THEN 0
    ELSE PopCount4(Xor4(h1[c], h2[c])) + PopCountFrom(h1, h2, c + 1)

\* The number of positions at which two hex strings have different digits.
DigitsApart(hash1, hash2) ==
    IF Len(hash1) # Len(hash2)
    THEN [ threw |-> TRUE, message |-> "Hash lengths must match", distance |-> 0 ]
    ELSE [ threw |-> FALSE, message |-> "",
           distance |-> Cardinality({ c \in 1..Len(hash1) : hash1[c] # hash2[c] }) ]

\* hammingDistance: throws on a length mismatch, else returns the popcount
\* of the XOR.
HammingDistance(hash1, hash2) ==
    IF Len(hash1) # Len(hash2)
    THEN [ threw |-> TRUE, message |-> "Hash lengths must match", distance |-> 0 ]
    ELSE [ threw |-> FALSE, message |-> "",
           distance |-> PopCountFrom(hash1, hash2, 1) ]

(***************************************************************************)
(* URL canonicalizer.  A URL string is the record                          *)
(*   ok    : whether new URL(url) parses it,                               *)
(*   host  : [www, name] (the hostname, which the parser lower-cases),     *)
(*   segs  : the path segments, each a number (<<>> is the bare root "/"), *)
(*   slash : whether the path ends in "/" (always TRUE for the root),      *)
(*   up    : whether the path (or the raw string) has upper-case letters,  *)
(*   query : the query parameters in order, each [k, up, v]: the key's     *)
(*           lower-case spelling, whether it is spelt in upper case, value.*)
(* For an unparseable string host.name is the raw text.                    *)
(***************************************************************************)
trackingParams ==
    { "utm_source", "utm_medium", "utm_campaign", "utm_term", "utm_content",
      "fbclid", "gclid", "ref", "source", "mc_cid", "mc_eid" }

\* searchParams.delete(param) for every tracking parameter: the comparison is
\* case-sensitive, so only the lower-case spelling is deleted.
RECURSIVE DeleteTracking(_)
DeleteTracking(query) ==
    IF query = <<>> THEN <<>>
    ELSE LET q == Head(query)
         IN  IF q.k \in trackingParams /\ ~q.up
             THEN DeleteTracking(Tail(query))
             ELSE <<q>> \o DeleteTracking(Tail(query))

\* The order of a[0].localeCompare(b[0]): alphabetical, and for the same
\* letters the lower-case spelling first.
KeyLess(a, b) ==
    LET letters == << "a", "id", "ref", "utm_source", "z" >>
        pos(k)  == CHOOSE i \in 1..Len(letters) : letters[i] = k
    IN  \/ pos(a.k) < pos(b.k)
        \/ pos(a.k) = pos(b.k) /\ ~a.up /\ b.up

\* Array.prototype.sort with that comparator (stable): insertion from the left.
RECURSIVE InsertParam(_, _)
InsertParam(sorted, q) ==
    IF sorted = <<>> THEN <<q>>
    ELSE IF KeyLess(q, Head(sorted)) THEN <<q>> \o sorted
    ELSE <<Head(sorted)>> \o InsertParam(Tail(sorted), q)

RECURSIVE SortParams(_, _)
SortParams(query, acc) ==
    IF query = <<>> THEN acc
    ELSE SortParams(Tail(query), InsertParam(acc, Head(query)))

\* canonicalizeUrl.  The trailing slash is tested on the string after the
\* query was appended, and the whole result is lower-cased last.
CanonicalizeUrl(url) ==
    IF ~url.ok
    THEN [ url EXCEPT !.up = FALSE ]
    ELSE LET kept   == DeleteTracking(url.query)
             sorted == SortParams(kept, <<>>)
             endsInSlash == sorted = <<>> /\ url.slash
             stripped    == endsInSlash /\ url.segs # <<>>
         IN  [ ok    |-> TRUE,
               host  |-> url.host,
               segs  |-> url.segs,
               slash |-> IF url.segs = <<>> THEN TRUE
                         ELSE IF stripped THEN FALSE ELSE url.slash,
               up    |-> FALSE,
               query |-> [ i \in 1..Len(sorted) |-> [ sorted[i] EXCEPT !.up = FALSE ] ] ]

\* hashUrl: the sha256 digest of the canonical form; the digest is taken to be
\* collision-free, so it is the canonical form under a tag.
\* A hash of the raw URL string, without canonicalisation.
HashUrlRaw(url) == << "sha256", url >>

HashUrl(url) == << "sha256", CanonicalizeUrl(url) >>

\* extractDomain: the hostname without a leading "www.", or "unknown".
ExtractDomain(url) == IF url.ok THEN url.host.name ELSE "unknown"

(***************************************************************************)
(* IEEE-754 binary64 arithmetic of Math.ceil(n * (p / 100)) for a whole    *)
(* number of items n >= 1 and a whole percentage 0 <= p <= 100.  A         *)
(* significand is a sequence of bits, most significant first; a binary64   *)
(* value is [sig |-> bits, scale |-> s], the number sig * 2^(-s).          *)
(***************************************************************************)
MantissaBits == 53

\* 2^k modulo m, by squaring.
RECURSIVE Pow2Mod(_, _)
Pow2Mod(k, m) ==
    IF k = 0 THEN 1 % m
    ELSE IF k % 2 = 0
         THEN LET h == Pow2Mod(k \div 2, m) IN (h * h) % m
         ELSE (2 * Pow2Mod(k - 1, m)) % m

\* Bit k (k >= 1) after the binary point of num/den, for 0 <= num < den:
\* floor(num * 2^k / den) mod 2.
FracBit(num, den, k) ==
    IF (num * Pow2Mod(k, 2 * den)) % (2 * den) >= den THEN 1 ELSE 0

\* Whether num/den has a non-zero bit after its first k fractional bits.
FracRest(num, den, k) == (num * Pow2Mod(k, den)) % den # 0

\* The number of zero bits between the binary point and the first 1 bit.
LeadingZeros(num, den) ==
    (CHOOSE k \in 1..HASH_BITS :
        FracBit(num, den, k) = 1 /\ \A j \in 1..(k - 1) : FracBit(num, den, j) = 0) - 1

\* bits + 1; an all-ones sequence grows by one bit.
Increment(bits) ==
    LET zeros == { i \in 1..Len(bits) : bits[i] = 0 }
    IN  IF zeros = {}
        THEN <<1>> \o [ i \in 1..Len(bits) |-> 0 ]
        ELSE LET j == CHOOSE i \in zeros : \A k \in zeros : k <= i
             IN  [ i \in 1..Len(bits) |->
                     IF i < j THEN bits[i] ELSE IF i = j THEN 1 ELSE 0 ]

\* The whole number written by a short bit sequence.
RECURSIVE FromBits(_)
FromBits(bits) ==
    IF bits = <<>> THEN 0
    ELSE 2 * FromBits(SubSeq(bits, 1, Len(bits) - 1)) + bits[Len(bits)]

\* bits with w - Len(bits) zero bits in front.
PadTo(bits, w) == [ i \in 1..w |-> IF i <= w - Len(bits) THEN 0 ELSE bits[i - (w - Len(bits))] ]

\* a + b for two bit sequences of the same length w; the result has w + 1
\* bits.  The carry into a position is decided by the positions right of it.
AddBits(a, b) ==
    LET w == Len(a)
        x == <<0>> \o a
        y == <<0>> \o b
        carry(i) == \E j \in (i + 1)..(w + 1) :
                        /\ x[j] = 1 /\ y[j] = 1
                        /\ \A k \in (i + 1)..(j - 1) : x[k] = 1 \/ y[k] = 1
    IN  [ i \in 1..(w + 1) |-> (x[i] + y[i] + (IF carry(i) THEN 1 ELSE 0)) % 2 ]

\* bits without its leading zero bits.
Normalize(bits) ==
    LET ones == { i \in 1..Len(bits) : bits[i] = 1 }
    IN  IF ones = {} THEN <<>>
        ELSE SubSeq(bits, CHOOSE i \in ones : \A k \in ones : i <= k, Len(bits))

\* sig * n for a whole n >= 0, exactly: shift and add over the bits of n.
RECURSIVE MulSmall(_, _)
MulSmall(sig, n) ==
    IF n = 0 THEN <<>>
    ELSE LET rest == MulSmall(sig, n \div 2) \o <<0>>
         IN  IF n % 2 = 0 THEN rest
             ELSE LET w == IF Len(rest) > Len(sig) THEN Len(rest) ELSE Len(sig)
                  IN  Normalize(AddBits(PadTo(rest, w), PadTo(sig, w)))

\* Round an exact [sig, scale] (sig without leading zero) to 53 significant
\* bits, to nearest, ties to even.
RoundToDouble(x) ==
    IF Len(x.sig) <= MantissaBits THEN x
    ELSE LET d       == Len(x.sig) - MantissaBits
             kept    == SubSeq(x.sig, 1, MantissaBits)
             dropped == SubSeq(x.sig, MantissaBits + 1, Len(x.sig))
             rest    == { i \in 2..d : dropped[i] = 1 }
             up      == dropped[1] = 1 /\ (rest # {} \/ kept[MantissaBits] = 1)
             raised  == IF up THEN Increment(kept) ELSE kept
         IN  IF Len(raised) > MantissaBits
             THEN [ sig |-> SubSeq(raised, 1, MantissaBits), scale |-> x.scale - d - 1 ]
             ELSE [ sig |-> raised, scale |-> x.scale - d ]

\* p / 100 in binary64, for 0 < p < 100: the quotient's expansion cut one bit
\* after its 53 significant bits, with a sticky bit for what follows.
DivideBy100(p) ==
    LET z      == LeadingZeros(p, 100)
        k      == z + MantissaBits + 1
        bits   == [ i \in 1..(MantissaBits + 1) |-> FracBit(p, 100, z + i) ]
        sticky == FracRest(p, 100, k)
    IN  RoundToDouble([ sig   |-> IF sticky THEN bits \o <<1>> ELSE bits,
                        scale |-> IF sticky THEN k + 1 ELSE k ])

\* n * q in binary64.
Multiply(n, q) == RoundToDouble([ sig |-> MulSmall(q.sig, n), scale |-> q.scale ])

\* Math.ceil of a positive binary64 value with scale > 0.
Ceil(x) ==
    LET n     == Len(x.sig)
        whole == IF x.scale >= n THEN 0 ELSE FromBits(SubSeq(x.sig, 1, n - x.scale))
        frac  == { i \in 1..n : i > n - x.scale /\ x.sig[i] = 1 }
    IN  IF frac = {} THEN whole ELSE whole + 1

\* Math.ceil(contentDeduped.length * (domainCapPercent / 100)).
MaxItemsPerDomain(n, p) ==
    IF p = 0 THEN 0
    ELSE IF p = 100 THEN n
    ELSE Ceil(Multiply(n, DivideBy100(p)))

(***************************************************************************)
(* The texts, URLs and items the model draws its inputs from.              *)
(***************************************************************************)
TextA == << 1, 4, 4, 5, 7, 5, 8, 7, 8, 8 >>
TextB == << 5, 4, 4, 5, 7, 5, 8, 7, 8, 8 >>       \* 9 bits from TextA
TextC == << 4, 4, 5, 7, 5, 8, 7, 8, 8, 8 >>       \* 7 bits from TextB, 14 from TextA
TextD == << 1, 4, 4, 5, 7, 5, 8, 7, 8, 8, 1 >>    \* 4 bits from TextA, over 10 from B, C
TextE == << 4, 4, 1 >>                            \* over 20 bits from the others
\* A text of ten words, more than 10 bits from every other text of the model.
LongText(k) == [ i \in 1..10 |-> 10 * k + i ]
Texts == { TextA, TextB, TextC, TextD, TextE, <<>> } \cup { LongText(k) : k \in 1..4 }

\* computeSimHash of the model's texts, computed once.
SimHashTable == [ t \in Texts |-> ComputeSimHash(t) ]
SimHashOf(text) == IF text \in Texts THEN SimHashTable[text] ELSE ComputeSimHash(text)

Url(www, name, segs, slash, up, query) ==
    [ ok |-> TRUE, host |-> [ www |-> www, name |-> name ], segs |-> segs,
      slash |-> slash, up |-> up, query |-> query ]
RawUrl(text, up) ==
    [ ok |-> FALSE, host |-> [ www |-> FALSE, name |-> text ], segs |-> <<>>,
      slash |-> FALSE, up |-> up, query |-> <<>> ]
Param(k, up, v) == [ k |-> k, up |-> up, v |-> v ]

UrlA1 == Url(FALSE, "a.com", <<1>>, FALSE, FALSE, <<>>)         \* https://a.com/p
UrlA2 == Url(FALSE, "a.com", <<1>>, TRUE, TRUE, <<>>)           \* https://a.com/P/
UrlA3 == Url(TRUE, "a.com", <<2>>, FALSE, FALSE,
             << Param("z", FALSE, "1"), Param("a", FALSE, "2") >>)  \* https://www.a.com/q?z=1&a=2
UrlB1 == Url(FALSE, "b.com", <<>>, TRUE, FALSE, <<>>)           \* https://b.com/
UrlB2 == Url(FALSE, "b.com", <<3>>, FALSE, FALSE,
             << Param("utm_source", FALSE, "x") >>)              \* https://b.com/r?utm_source=x
UrlX == RawUrl("not a url", TRUE)                              \* Not A URL

Item(id, url, text, score, upvotes) ==
    [ id |-> id, url |-> url, text |-> text, score |-> score, upvotes |-> upvotes,
      source_name |-> ExtractDomain(url) ]

Item1 == Item(1, UrlA1, TextA, 1, 0)
Item2 == Item(2, UrlA2, TextC, 5, 0)    \* same canonical URL as Item1
Item3 == Item(3, UrlA3, TextB, 5, 0)    \* near Item1 at threshold 10, higher score
Item4 == Item(4, UrlB1, TextC, 0, 3)    \* near Item3 at threshold 10, not near Item1
Item5 == Item(5, UrlX, TextD, 1, 0)     \* near Item1 at threshold 5, same score
Item6 == Item(6, UrlB2, TextE, 0, 0)    \* a short text, far from the others
Catalog == { Item1, Item2, Item3, Item4, Item5, Item6 }

\* The k-th item of a long list: its own URL on the given domain and a text
\* more than 20 bits from the text of every other such item.
ListItem(k, domain) ==
    Item(100 + k, Url(FALSE, domain, << 10 + k >>, FALSE, FALSE, <<>>),
         << k, k + 1, k + 2 >>, 0, 0)

(***************************************************************************)
(* Dedup store: the dedupe_cache table, a set of rows                      *)
(* [url_hash, content_simhash, source_url] with UNIQUE(url_hash).          *)
(* Every access goes through runQuery, which rethrows a database error.    *)
(***************************************************************************)
\* checkUrlExists: SELECT 1 FROM dedupe_cache WHERE url_hash = ?
CheckUrlExists(cache, urlHash) == \E r \in cache : r.url_hash = urlHash

\* addToDedupeCache: INSERT OR IGNORE; a row whose url_hash is present is
\* left as it is.
\* An insert without the uniqueness constraint.
AddAlways(cache, urlHash, contentSimhash, sourceUrl) ==
    cache \cup { [ url_hash |-> urlHash, content_simhash |-> contentSimhash,
                   source_url |-> sourceUrl ] }

\* An insert that records nothing.
AddNothing(cache, urlHash, contentSimhash, sourceUrl) == cache

AddToDedupeCache(cache, urlHash, contentSimhash, sourceUrl) ==
    IF \E r \in cache : r.url_hash = urlHash THEN cache
    ELSE cache \cup { [ url_hash |-> urlHash, content_simhash |-> contentSimhash,
                        source_url |-> sourceUrl ] }

(***************************************************************************)
(* Deduplication engine.  An item is [id, url, text, score, upvotes,       *)
(* source_name]; score and upvotes are meta.score and meta.upvotes, 0 when *)
(* absent (absent and 0 are both falsy).                                   *)
(***************************************************************************)
DEFAULT_SIMHASH_THRESHOLD == 5
DEFAULT_DOMAIN_CAP_PERCENT == 25

\* The later indices within maxDistance of the seed, visited or not.
GroupOfAny(hashes, seed, visited, maxDistance) ==
    { j \in (seed + 1)..Len(hashes) :
        HammingDistance(hashes[seed], hashes[j]).distance <= maxDistance }

\* findNearDuplicateGroups, the inner loop: the later unvisited indices whose
\* hash is within maxDistance of the seed's hash.  The hashes all come from
\* computeSimHash and have one width, so hammingDistance does not throw.
GroupOf(hashes, seed, visited, maxDistance) ==
    { j \in (seed + 1)..Len(hashes) :
        j \notin visited /\
        HammingDistance(hashes[seed], hashes[j]).distance <= maxDistance }

\* A finite set of indices as the ascending sequence.
RECURSIVE Ascending(_)
Ascending(S) ==
    IF S = {} THEN <<>>
    ELSE LET m == CHOOSE x \in S : \A y \in S : x <= y
         IN  <<m>> \o Ascending(S \ {m})

\* An outer loop that starts a group at every index, visited or not.
RECURSIVE GroupsRevisit(_, _, _, _)
GroupsRevisit(hashes, i, visited, maxDistance) ==
    IF i > Len(hashes) THEN <<>>
    ELSE LET members == GroupOf(hashes, i, {}, maxDistance)
             rest    == GroupsRevisit(hashes, i + 1, visited, maxDistance)
         IN  IF members # {} THEN << <<i>> \o Ascending(members) >> \o rest
             ELSE rest

\* findNearDuplicateGroups, the outer loop from index i on.
RECURSIVE GroupsFrom(_, _, _, _)
GroupsFrom(hashes, i, visited, maxDistance) ==
    IF i > Len(hashes) THEN <<>>
    ELSE IF i \in visited THEN GroupsFrom(hashes, i + 1, visited, maxDistance)
    ELSE LET members == GroupOf(hashes, i, visited, maxDistance)
             rest    == GroupsFrom(hashes, i + 1, visited \cup {i} \cup members, maxDistance)
         IN  IF members # {} THEN << <<i>> \o Ascending(members) >> \o rest
             ELSE rest

FindNearDuplicateGroups(texts, maxDistance) ==
    GroupsFrom([ k \in 1..Len(texts) |-> SimHashOf(texts[k]) ], 1, {}, maxDistance)

\* (a.meta?.score) || (a.meta?.upvotes) || 0
EngagementScore(item) ==
    IF item.score # 0 THEN item.score
    ELSE IF item.upvotes # 0 THEN item.upvotes
    ELSE 0

\* items_in_group.sort((a, b) => scoreB - scoreA): stable, highest score first.
RECURSIVE InsertByScore(_, _)
InsertByScore(sorted, item) ==
    IF sorted = <<>> THEN <<item>>
    ELSE IF EngagementScore(item) > EngagementScore(Head(sorted)) THEN <<item>> \o sorted
    ELSE <<Head(sorted)>> \o InsertByScore(Tail(sorted), item)

RECURSIVE SortByScore(_, _)
SortByScore(items, acc) ==
    IF items = <<>> THEN acc
    ELSE SortByScore(Tail(items), InsertByScore(acc, Head(items)))

\* Step 1, the loop over the items from index i on.  st carries urlDeduped,
\* urlDuplicatesRemoved, duplicateGroups, the number of database calls made
\* and whether one of them threw; failAt is the database call that throws
\* (0: none does).
RECURSIVE UrlDedupFrom(_, _, _, _, _, _)
UrlDedupFrom(items, i, st, checkCache, cache, failAt) ==
    IF i > Len(items) \/ st.threw THEN st
    ELSE LET item    == items[i]
             urlHash == HashUrl(item.url)
             same    == { k \in 1..Len(st.urlDeduped) : HashUrl(st.urlDeduped[k].url) = urlHash }
         IN  IF same # {}
             THEN LET existing == st.urlDeduped[CHOOSE k \in same : TRUE]
                  IN  UrlDedupFrom(items, i + 1,
                        [ st EXCEPT !.urlDuplicatesRemoved = @ + 1,
                                    !.duplicateGroups = Append(@,
                                        [ type |-> "url",
                                          urls |-> << existing.url, item.url >>,
                                          kept |-> existing.url ]) ],
                        checkCache, cache, failAt)
             ELSE IF checkCache
             THEN IF st.dbCalls + 1 = failAt
                  THEN [ st EXCEPT !.dbCalls = @ + 1, !.threw = TRUE ]
                  ELSE IF CheckUrlExists(cache, urlHash)
                  THEN UrlDedupFrom(items, i + 1,
                        [ st EXCEPT !.dbCalls = @ + 1, !.urlDuplicatesRemoved = @ + 1 ],
                        checkCache, cache, failAt)
                  ELSE UrlDedupFrom(items, i + 1,
                        [ st EXCEPT !.dbCalls = @ + 1, !.urlDeduped = Append(@, item) ],
                        checkCache, cache, failAt)
             ELSE UrlDedupFrom(items, i + 1,
                        [ st EXCEPT !.urlDeduped = Append(@, item) ],
                        checkCache, cache, failAt)

\* Step 2, per near-duplicate group: the indices removed are group[1..] (all
\* but the group's first index), while kept is the head of the sorted copy.
ContentGroupRecord(urlDeduped, group) ==
    LET items_in_group == [ k \in 1..Len(group) |-> urlDeduped[group[k]] ]
        sorted         == SortByScore(items_in_group, <<>>)
    IN  [ type |-> "content",
          urls |-> [ k \in 1..Len(sorted) |-> sorted[k].url ],
          kept |-> sorted[1].url ]

\* A count with one increment per index of every group, the kept one
\* included.
RECURSIVE GroupSizes(_)
GroupSizes(nearDupeGroups) ==
    IF nearDupeGroups = <<>> THEN 0
    ELSE Len(Head(nearDupeGroups)) + GroupSizes(Tail(nearDupeGroups))

\* nearDuplicatesRemoved: one increment per removed index of every group.
RECURSIVE NearDuplicatesRemoved(_)
NearDuplicatesRemoved(nearDupeGroups) ==
    IF nearDupeGroups = <<>> THEN 0
    ELSE (Len(Head(nearDupeGroups)) - 1) + NearDuplicatesRemoved(Tail(nearDupeGroups))

IndicesToRemove(nearDupeGroups) ==
    UNION { { nearDupeGroups[g][k] : k \in 2..Len(nearDupeGroups[g]) } :
            g \in 1..Len(nearDupeGroups) }

\* Step 3, the loop over contentDeduped from index i on.  st carries
\* cappedItems, domainCounts, domainsCapped and domainCapApplied.
RECURSIVE DomainCapFrom(_, _, _, _)
DomainCapFrom(contentDeduped, i, st, maxItemsPerDomain) ==
    IF i > Len(contentDeduped) THEN st
    ELSE LET item   == contentDeduped[i]
             domain == ExtractDomain(item.url)
             currentCount == IF domain \in DOMAIN st.domainCounts
                             THEN st.domainCounts[domain] ELSE 0
         IN  IF currentCount >= maxItemsPerDomain
             THEN DomainCapFrom(contentDeduped, i + 1,
                    [ st EXCEPT !.domainsCapped =
                                   IF domain \in Range(@) THEN @ ELSE Append(@, domain),
                                !.domainCapApplied = TRUE ],
                    maxItemsPerDomain)
             ELSE DomainCapFrom(contentDeduped, i + 1,
                    [ st EXCEPT !.domainCounts =
                                   [ d \in (DOMAIN @) \cup {domain} |->
                                       IF d = domain THEN currentCount + 1 ELSE @[d] ],
                                !.cappedItems = Append(@, item) ],
                    maxItemsPerDomain)

ApplyDomainCaps(contentDeduped, applyDomainCaps, domainCapPercent) ==
    IF applyDomainCaps /\ Len(contentDeduped) > 0
    THEN LET st == DomainCapFrom(contentDeduped, 1,
                     [ cappedItems |-> <<>>, domainCounts |-> <<>>,
                       domainsCapped |-> <<>>, domainCapApplied |-> FALSE ],
                     MaxItemsPerDomain(Len(contentDeduped), domainCapPercent))
         IN  [ finalItems |-> st.cappedItems, domainCapApplied |-> st.domainCapApplied,
               domainsCapped |-> st.domainsCapped ]
    ELSE [ finalItems |-> contentDeduped, domainCapApplied |-> FALSE,
           domainsCapped |-> <<>> ]

\* Step 4, the loop over finalItems from index i on; st carries the store,
\* the number of database calls made and whether one of them threw.
RECURSIVE CacheUpdateFrom(_, _, _, _)
CacheUpdateFrom(finalItems, i, st, failAt) ==
    IF i > Len(finalItems) \/ st.threw THEN st
    ELSE IF st.dbCalls + 1 = failAt
    THEN [ st EXCEPT !.dbCalls = @ + 1, !.threw = TRUE ]
    ELSE CacheUpdateFrom(finalItems, i + 1,
            [ st EXCEPT !.dbCalls = @ + 1,
                        !.cache = AddToDedupeCache(@, HashUrl(finalItems[i].url),
                                                   SimHashOf(finalItems[i].text),
                                                   finalItems[i].url) ],
            failAt)

\* deduplicateItems(items, options) on the store cache.  The result carries
\* the store after the call and threw: whether a database error escaped, in
\* which case nothing is returned to the caller.
DeduplicateItems(items, options, cache, failAt) ==
    LET s1 == UrlDedupFrom(items, 1,
                [ urlDeduped |-> <<>>, urlDuplicatesRemoved |-> 0,
                  duplicateGroups |-> <<>>, dbCalls |-> 0, threw |-> FALSE ],
                options.checkCache, cache, failAt)
        urlDeduped     == s1.urlDeduped
        nearDupeGroups == FindNearDuplicateGroups(
                            [ k \in 1..Len(urlDeduped) |-> urlDeduped[k].text ],
                            options.simhashThreshold)
        indicesToRemove == IndicesToRemove(nearDupeGroups)
        contentDeduped  == FilterIdx(urlDeduped, (1..Len(urlDeduped)) \ indicesToRemove, 1)
        capped == ApplyDomainCaps(contentDeduped, options.applyDomainCaps,
                                  options.domainCapPercent)
        s4 == CacheUpdateFrom(capped.finalItems, 1,
                [ cache |-> cache, dbCalls |-> s1.dbCalls, threw |-> FALSE ], failAt)
    IN  IF s1.threw
        THEN [ threw |-> TRUE, cache |-> cache, items |-> <<>>, urlDeduped |-> <<>>,
               contentDeduped |-> <<>>, nearDupeGroups |-> <<>>,
               stats |-> [ originalCount |-> Len(items), urlDuplicatesRemoved |-> 0,
                           nearDuplicatesRemoved |-> 0, finalCount |-> 0,
                           domainCapApplied |-> FALSE, domainsCapped |-> <<>> ],
               duplicateGroups |-> <<>> ]
        ELSE [ threw |-> s4.threw,
               cache |-> s4.cache,
               items |-> capped.finalItems,
               urlDeduped |-> urlDeduped,
               contentDeduped |-> contentDeduped,
               nearDupeGroups |-> nearDupeGroups,
               stats |-> [ originalCount |-> Len(items),
                           urlDuplicatesRemoved |-> s1.urlDuplicatesRemoved,
                           nearDuplicatesRemoved |-> NearDuplicatesRemoved(nearDupeGroups),
                           finalCount |-> Len(capped.finalItems),
                           domainCapApplied |-> capped.domainCapApplied,
                           domainsCapped |-> capped.domainsCapped ],
               duplicateGroups |-> s1.duplicateGroups \o
                   [ g \in 1..Len(nearDupeGroups) |->
                       ContentGroupRecord(urlDeduped, nearDupeGroups[g]) ] ]

(***************************************************************************)
(* Search phrases, the web search connector and the normalizer.  A search  *)
(* phrase is a number; the content of a citation is a text (its words),    *)
(* every word taking ten characters including its separator.               *)
(***************************************************************************)
SEARCH_PHRASES_COUNT == 5

\* A fallback of the topic alone.
TopicOnly(topic) == << 10 * topic >>

\* createFallbackPhrases: the topic itself and five suffixed variants.
CreateFallbackPhrases(topic) == [ k \in 1..6 |-> 10 * topic + (k - 1) ]

\* generateSearchPhrases, given what the LLM call gave: answer.ok is FALSE
\* if it threw, else answer.phrases is the list of phrases of its answer.
GenerateSearchPhrases(topic, answer) ==
    IF ~answer.ok THEN CreateFallbackPhrases(topic)
    ELSE IF Len(answer.phrases) > 0
    THEN SubSeq(answer.phrases, 1,
                IF Len(answer.phrases) < SEARCH_PHRASES_COUNT
                THEN Len(answer.phrases) ELSE SEARCH_PHRASES_COUNT)
    ELSE CreateFallbackPhrases(topic)

Citation(url, content) == [ url |-> url, content |-> content ]

UrlC == Url(FALSE, "c.org", <<4>>, FALSE, FALSE, <<>>)
UrlD == Url(FALSE, "d.org", <<5>>, FALSE, FALSE, <<>>)
UrlE == Url(FALSE, "e.org", <<6>>, FALSE, FALSE, <<>>)
UrlF == Url(TRUE, "f.org", <<7>>, FALSE, FALSE, <<>>)

\* What the web search returns for a phrase when it succeeds.
WebPages ==
    << << Citation(UrlA1, TextA), Citation(UrlB1, TextC) >>,
       << Citation(UrlA2, TextC), Citation(UrlA1, TextA), Citation(UrlB2, TextE) >>,
       << Citation(UrlA3, TextB), Citation(UrlX, TextD) >>,
       << Citation(UrlC, LongText(1)), Citation(UrlD, LongText(2)) >>,
       << Citation(UrlE, LongText(3)), Citation(UrlF, LongText(4)) >>,
       << >> >>

SearchWeb(query) == WebPages[(query % Len(WebPages)) + 1]

\* The store after earlier analyses recorded every URL of citations.
RECURSIVE RecordAll(_, _)
RecordAll(citations, cache) ==
    IF citations = <<>> THEN cache
    ELSE RecordAll(Tail(citations),
                   AddToDedupeCache(cache, HashUrl(Head(citations).url),
                                    SimHashOf(Head(citations).content),
                                    Head(citations).url))

\* The store that holds every URL the web search can return.
StoreOfEverything ==
    RecordAll(WebPages[1] \o WebPages[2] \o WebPages[3] \o WebPages[4] \o WebPages[5], {})

\* The citations whose URL string did not occur earlier in the list.
UniqueCitations(citations) ==
    FilterIdx(citations,
              { k \in 1..Len(citations) :
                  \A j \in 1..(k - 1) : citations[j].url # citations[k].url }, 1)

\* citationsToItems: a citation with under 50 characters of content, or
\* under 100 after cleaning, is skipped; items carry no engagement score.
CitationsToItems(citations) ==
    LET kept == FilterIdx(citations,
                          { k \in 1..Len(citations) :
                              /\ ~(10 * Len(citations[k].content) < 50)
                              /\ ~(10 * Len(citations[k].content) < 100) }, 1)
    IN  [ k \in 1..Len(kept) |-> Item(k, kept[k].url, kept[k].content, 0, 0) ]

\* normalizeItems with filterNonMeaningful and minWordCount 10 and no
\* language restriction: items of fewer than ten words are filtered out.
NormalizeItems(items) ==
    FilterIdx(items, { k \in 1..Len(items) : ~(Len(items[k].text) < 10) }, 1)

(***************************************************************************)
(* Content analysis.  Confidence scores are in hundredths.                 *)
(***************************************************************************)
\* The source names of items in order of first appearance.
RECURSIVE SourcesInOrder(_, _)
SourcesInOrder(items, acc) ==
    IF items = <<>> THEN acc
    ELSE SourcesInOrder(Tail(items),
                        IF Head(items).source_name \in Range(acc) THEN acc
                        ELSE Append(acc, Head(items).source_name))

\* bySource entries .slice(0, 5)
FirstFive(s) == SubSeq(s, 1, IF Len(s) < 5 THEN Len(s) ELSE 5)

\* The by-source fallback without the limit of five groups.
FallbackUncapped(items) ==
    LET sources == SourcesInOrder(items, <<>>)
    IN  [ clusters |-> [ i \in 1..Len(sources) |->
                           [ label |-> sources[i], stance |-> "unclear",
                             count |-> Cardinality({ k \in 1..Len(items) :
                                           items[k].source_name = sources[i] }),
                             confidence |-> 30 ] ],
          overall |-> 30, fallback |-> TRUE ]

\* createFallbackAnalysis
CreateFallbackAnalysis(items) ==
    IF Len(items) = 0
    THEN [ clusters |-> <<>>, overall |-> 10, fallback |-> TRUE ]
    ELSE LET sources == FirstFive(SourcesInOrder(items, <<>>))
         IN  [ clusters |-> [ i \in 1..Len(sources) |->
                                [ label |-> sources[i], stance |-> "unclear",
                                  count |-> Cardinality({ k \in 1..Len(items) :
                                                items[k].source_name = sources[i] }),
                                  confidence |-> 30 ] ],
               overall |-> 30, fallback |-> TRUE ]

\* mapLLMResponseToOutput: one cluster per cluster of the response; a missing
\* (zero) overall_confidence becomes 0.7.
MapLLMResponseToOutput(llmResponse, items) ==
    LET overall == IF llmResponse.overall_confidence # 0
                   THEN llmResponse.overall_confidence ELSE 70
    IN  [ clusters |-> [ i \in 1..Len(llmResponse.clusters) |->
                           [ label |-> llmResponse.clusters[i].label,
                             stance |-> llmResponse.clusters[i].stance,
                             count |-> llmResponse.clusters[i].count,
                             confidence |-> overall ] ],
          overall |-> overall, fallback |-> FALSE ]

\* analyzeContent, given what the LLM call gave: llm.ok is FALSE if the
\* call or the mapping of its response threw.
AnalyzeContent(items, llm) ==
    IF ~llm.ok THEN CreateFallbackAnalysis(items)
    ELSE MapLLMResponseToOutput(llm, items)

(***************************************************************************)
(* State.                                                                  *)
(*   dedupeCache : the rows of the dedupe_cache table                      *)
(*   call        : the deduplicateItems call in progress or just made      *)
(*   result      : what that call produced                                 *)
(*   nCalls      : number of deduplicateItems calls made so far            *)
(*   outputUrls  : canonical URLs of the items returned by the calls made  *)
(* and, for one request to the streaming route,                            *)
(*   pc           : where the request is: "request" (not yet handled),     *)
(*                  "phrases", "fetch", "delay", "analyze" (the awaited     *)
(*                  call) or "done"                                        *)
(*   input        : the validated request body                             *)
(*   aborted      : abortController.signal.aborted                         *)
(*   isClosed     : the route's isClosed flag                              *)
(*   record       : status and error_message of the analysis_results row   *)
(*   sent         : the events enqueued on the stream                      *)
(*   reported     : the progress reports made by runAnalysis               *)
(*   searchPhrases, allCitations, rawItems, dedupeResult, output :         *)
(*                  the locals of those names                              *)
(*   issued       : the queries searchWeb was called with, in order        *)
(*   fetchLog     : how each of these calls ended                          *)
(*   outcome      : how runAnalysis ended                                  *)
(*   cancelPoint  : where the request was when the client disconnected     *)
(*   entryAborted : the stages entered while the signal was aborted        *)
(*   llmFailed    : whether the analysing LLM call failed                  *)
(*   phraseFailed : whether the phrase-generating LLM call failed or gave  *)
(*                  no phrase                                              *)
(* and, for one RateLimiter instance and its callers,                      *)
(*   limiterOptions : this.options                                         *)
(*   requests     : this.requests, the timestamps of admitted requests     *)
(*   now          : Date.now()                                             *)
(*   callers      : per executeWithRetry caller, where it is and its locals *)
(*   admissions   : per admitted request, who asked, when, and when it     *)
(*                  was admitted                                           *)
(* and, for the runs that write to the store side by side,                 *)
(*   writers      : per run, the rows its cache-update step still writes   *)
(*   lastWrite    : the last addToDedupeCache call and the store before it *)
(* and, for the exported functions called on their own,                    *)
(*   applied      : the last such call: the function, its arguments and    *)
(*                  what it gave back                                      *)
(***************************************************************************)
VARIABLES dedupeCache, call, result, nCalls, outputUrls,
          pc, input, aborted, isClosed, record, sent, reported,
          searchPhrases, issued, fetchLog, allCitations, rawItems,
          dedupeResult, output, outcome, cancelPoint, entryAborted, llmFailed,
          phraseFailed,
          limiterOptions, requests, now, callers, admissions,
          writers, lastWrite,
          applied

dedupVars == << call, result, nCalls, outputUrls >>

pipeVars == << pc, input, aborted, isClosed, record, sent, reported,
               searchPhrases, issued, fetchLog, allCitations, rawItems,
               dedupeResult, output, outcome, cancelPoint, entryAborted,
               llmFailed, phraseFailed >>

limiterVars == << limiterOptions, requests, now, callers, admissions >>

writerVars == << writers, lastWrite >>

fnVars == << applied >>

vars == << dedupeCache, dedupVars, pipeVars, limiterVars, writerVars, fnVars >>

NoInput == [ topic |-> 0, apply_domain_caps |-> TRUE, domain_cap_percent |-> 10 ]
NoRecord == [ status |-> "none", error_message |-> "" ]
NoStats ==
    [ originalCount |-> 0, urlDuplicatesRemoved |-> 0, nearDuplicatesRemoved |-> 0,
      finalCount |-> 0, domainCapApplied |-> FALSE, domainsCapped |-> <<>> ]
NoDedupeResult == [ items |-> <<>>, stats |-> NoStats ]
NoOutput ==
    [ status |-> "none", n_raw |-> 0, n_after_dedupe |-> 0, n_analyzed |-> 0,
      domain_caps_applied |-> FALSE, clusters |-> <<>>, overall |-> 0,
      fallback |-> FALSE ]
NoCancel == [ pc |-> "none", n |-> 0 ]

\* The RateLimiter's DEFAULT_OPTIONS.
DEFAULT_OPTIONS ==
    [ maxRetries |-> 3, baseDelayMs |-> 1000, maxDelayMs |-> 30000,
      requestsPerWindow |-> 10, windowMs |-> 60000 ]

NoWrite == [ writer |-> 0, row |-> << >>, before |-> {} ]

\* A RateLimiter just constructed, with no caller.
LimiterIdle ==
    /\ limiterOptions = DEFAULT_OPTIONS
    /\ requests = <<>>
    /\ now = 0
    /\ callers = <<>>
    /\ admissions = <<>>

\* No run is writing to the store.
WritersIdle ==
    /\ writers = <<>>
    /\ lastWrite = NoWrite

\* No exported function has been called on its own.
NoApplication == [ fn |-> "none", args |-> <<>>, value |-> <<>> ]
FnIdle == applied = NoApplication

\* No request has been received.
PipeIdle ==
    /\ pc = "request"
    /\ input = NoInput
    /\ aborted = FALSE
    /\ isClosed = FALSE
    /\ record = NoRecord
    /\ sent = <<>>
    /\ reported = <<>>
    /\ searchPhrases = <<>>
    /\ issued = <<>>
    /\ fetchLog = <<>>
    /\ allCitations = <<>>
    /\ rawItems = <<>>
    /\ dedupeResult = NoDedupeResult
    /\ output = NoOutput
    /\ outcome = "none"
    /\ cancelPoint = NoCancel
    /\ entryAborted = {}
    /\ llmFailed = FALSE
    /\ phraseFailed = FALSE

DefaultOptions ==
    [ checkCache |-> TRUE, simhashThreshold |-> DEFAULT_SIMHASH_THRESHOLD,
      applyDomainCaps |-> TRUE, domainCapPercent |-> DEFAULT_DOMAIN_CAP_PERCENT ]

NoCall ==
    [ valid |-> FALSE, items |-> <<>>, options |-> DefaultOptions, failAt |-> 0,
      cacheBefore |-> {}, outputBefore |-> {} ]

NoResult ==
    [ valid |-> FALSE, threw |-> FALSE, items |-> <<>>, urlDeduped |-> <<>>,
      contentDeduped |-> <<>>, nearDupeGroups |-> <<>>,
      stats |-> NoStats, duplicateGroups |-> <<>> ]

\* The state after a deduplicateItems call that produced r: the store as
\* the call left it, and the value handed back (nothing if it threw).
Returned(items, options, failAt, r) ==
    /\ dedupeCache' = r.cache
    /\ call' = [ valid |-> TRUE, items |-> items, options |-> options,
                 failAt |-> failAt, cacheBefore |-> dedupeCache,
                 outputBefore |-> outputUrls ]
    /\ result' = [ valid |-> TRUE, threw |-> r.threw,
                   items |-> IF r.threw THEN <<>> ELSE r.items,
                   urlDeduped |-> r.urlDeduped,
                   contentDeduped |-> r.contentDeduped,
                   nearDupeGroups |-> r.nearDupeGroups,
                   stats |-> r.stats, duplicateGroups |-> r.duplicateGroups ]
    /\ nCalls' = nCalls + 1
    /\ UNCHANGED << pipeVars, limiterVars, writerVars, fnVars >>
    /\ outputUrls' = IF r.threw THEN outputUrls
                     ELSE outputUrls \cup
                          { CanonicalizeUrl(r.items[k].url) : k \in 1..Len(r.items) }

\* One call deduplicateItems(items, options) against the store; failAt is
\* the database call of this call that throws (0: none).
DedupCall(items, options, failAt) ==
    Returned(items, options, failAt,
             DeduplicateItems(items, options, dedupeCache, failAt))

(***************************************************************************)
(* Specification SpecDedup: one deduplicateItems call on a batch drawn     *)
(* from the catalog, against an empty store or the store a previous        *)
(* analysis left behind; no database call fails.                           *)
(***************************************************************************)
MaxItems == 3

\* Every batch of up to MaxItems items, and one longer batch in which each of
\* the three stages removes an item at the default threshold and percent.
Batches == SeqsUpTo(Catalog, MaxItems) \cup { << Item1, Item2, Item5, Item3 >> }

OptionChoices ==
    { [ checkCache |-> cc, simhashThreshold |-> th,
        applyDomainCaps |-> cap[1], domainCapPercent |-> cap[2] ] :
      cc \in BOOLEAN, th \in { DEFAULT_SIMHASH_THRESHOLD, 10 },
      cap \in { << FALSE, DEFAULT_DOMAIN_CAP_PERCENT >>,
                << TRUE, DEFAULT_DOMAIN_CAP_PERCENT >>, << TRUE, 50 >> } }

\* The store after a previous analysis processed Item1 and Item4.
StoreAfterRun ==
    DeduplicateItems(<< Item1, Item4 >>,
                     [ DefaultOptions EXCEPT !.checkCache = FALSE ], {}, 0).cache

InitDedup ==
    /\ dedupeCache \in { {}, StoreAfterRun }
    /\ call = NoCall
    /\ result = NoResult
    /\ nCalls = 0
    /\ outputUrls = { CanonicalizeUrl(row.source_url) : row \in dedupeCache }
    /\ PipeIdle
    /\ LimiterIdle
    /\ WritersIdle
    /\ FnIdle

DedupBatch ==
    /\ nCalls = 0
    /\ \E items \in Batches, options \in OptionChoices :
          DedupCall(items, options, 0)

NextDedup == DedupBatch

SpecDedup == InitDedup /\ [][NextDedup]_vars

(***************************************************************************)
(* Specification SpecStore: a sequence of deduplicateItems calls sharing   *)
(* the store, starting from the empty table; a database call may throw.    *)
(***************************************************************************)
MaxBatch == 2
MaxCalls == 2
MaxFailAt == 2

StoreCatalog == { Item1, Item2, Item3, Item4 }
StoreBatches == SeqsUpTo(StoreCatalog, MaxBatch)

StoreOptionChoices ==
    { [ checkCache |-> cc, simhashThreshold |-> 10,
        applyDomainCaps |-> cap, domainCapPercent |-> 50 ] :
      cc \in BOOLEAN, cap \in BOOLEAN }

InitStore ==
    /\ dedupeCache = {}
    /\ call = NoCall
    /\ result = NoResult
    /\ nCalls = 0
    /\ outputUrls = {}
    /\ PipeIdle
    /\ LimiterIdle
    /\ WritersIdle
    /\ FnIdle

StoreCall ==
    /\ ~call.valid
    /\ nCalls < MaxCalls
    /\ \E items \in StoreBatches, options \in StoreOptionChoices, failAt \in 0..MaxFailAt :
          DedupCall(items, options, failAt)

\* The caller is done with the returned value; only the store lives on.
Forget ==
    /\ call.valid
    /\ call' = NoCall
    /\ result' = NoResult
    /\ UNCHANGED << dedupeCache, nCalls, outputUrls, pipeVars, limiterVars, writerVars, fnVars >>

NextStore == StoreCall \/ Forget

SpecStore == InitStore /\ [][NextStore]_vars

(***************************************************************************)
(* Specification SpecCap: one deduplicateItems call on a long list of      *)
(* items with pairwise different URLs and texts, spread over one, two or   *)
(* three domains.                                                          *)
(***************************************************************************)
MaxListLen == 25

DomainNames == << "x.org", "y.org", "z.org" >>
CapPercents == { 0, 5, 10, 25, 28, 50, 100 }

\* n items, the k-th on domain number (k mod spread) + 1.
LongList(n, spread) == [ k \in 1..n |-> ListItem(k, DomainNames[(k % spread) + 1]) ]

InitCap == InitStore

CapCall ==
    /\ nCalls = 0
    /\ \E n \in 1..MaxListLen, spread \in 1..Len(DomainNames), p \in CapPercents :
          DedupCall(LongList(n, spread),
                    [ checkCache |-> FALSE, simhashThreshold |-> DEFAULT_SIMHASH_THRESHOLD,
                      applyDomainCaps |-> TRUE, domainCapPercent |-> p ], 0)

NextCap == CapCall

SpecCap == InitCap /\ [][NextCap]_vars

(***************************************************************************)
(* Properties of the deduplication engine.                                 *)
(***************************************************************************)
Returned0 == result.valid /\ ~result.threw

\* The positions of s holding an item of the given domain, as a sequence.
ItemsOfDomain(s, domain) ==
    FilterIdx(s, { k \in 1..Len(s) : ExtractDomain(s[k].url) = domain }, 1)

\* Exact integer ceiling of a / b.
CeilDiv(a, b) == (a + b - 1) \div b

\* The first member of a group (positions into urlDeduped) whose engagement
\* score is the highest of the group.
BestOfGroup(urlDeduped, group) ==
    LET top == CHOOSE k \in 1..Len(group) :
                 /\ \A j \in 1..Len(group) :
                       EngagementScore(urlDeduped[group[j]]) <=
                       EngagementScore(urlDeduped[group[k]])
                 /\ \A j \in 1..(k - 1) :
                       EngagementScore(urlDeduped[group[j]]) <
                       EngagementScore(urlDeduped[group[k]])
    IN  urlDeduped[group[top]]

\* C7: in content-level dedup exactly one item of every near-duplicate group
\* remains, and it is the member with the highest engagement score (score,
\* then upvotes, else 0), the first-encountered one when scores tie.
C7_KeepsHighestScore ==
    Returned0 =>
        \A g \in 1..Len(result.nearDupeGroups) :
            LET group     == result.nearDupeGroups[g]
                remaining == { k \in 1..Len(group) :
                                 result.urlDeduped[group[k]] \in Range(result.contentDeduped) }
            IN  /\ Cardinality(remaining) = 1
                /\ \A k \in remaining :
                      result.urlDeduped[group[k]] = BestOfGroup(result.urlDeduped, group)

\* C8: the output of deduplicateItems never holds two items with the same
\* canonical URL, and an output item is the first item of the input that has
\* its canonical URL.
C8_FirstOccurrenceWins ==
    Returned0 =>
        /\ \A i, j \in 1..Len(result.items) :
              CanonicalizeUrl(result.items[i].url) = CanonicalizeUrl(result.items[j].url)
                  => i = j
        /\ \A k \in 1..Len(result.items) :
              LET same  == { i \in 1..Len(call.items) :
                               CanonicalizeUrl(call.items[i].url) =
                               CanonicalizeUrl(result.items[k].url) }
                  first == CHOOSE i \in same : \A j \in same : i <= j
              IN  same # {} /\ result.items[k] = call.items[first]

\* A returned call whose batch had two differently spelt URLs with one
\* canonical form, the first of which is in the output.
C8_Witness ==
    /\ Returned0
    /\ \E i, j \in 1..Len(call.items) :
          /\ i < j
          /\ call.items[i].url # call.items[j].url
          /\ CanonicalizeUrl(call.items[i].url) = CanonicalizeUrl(call.items[j].url)
          /\ call.items[i] \in Range(result.items)

\* C9: capping n content-deduped items with percent p keeps, for every
\* domain, exactly its first ceil(n*p/100) items (so at most that many);
\* domainsCapped lists exactly the domains that lost an item, and
\* domainCapApplied is true exactly when that list is non-empty.
C9_DomainCap ==
    (Returned0 /\ call.options.applyDomainCaps /\ Len(result.contentDeduped) > 0) =>
        LET n       == Len(result.contentDeduped)
            max     == CeilDiv(n * call.options.domainCapPercent, 100)
            domains == { ExtractDomain(result.contentDeduped[k].url) : k \in 1..n }
            before(d) == ItemsOfDomain(result.contentDeduped, d)
            after(d)  == ItemsOfDomain(result.items, d)
        IN  /\ \A d \in domains :
                  /\ Len(after(d)) <= max
                  /\ after(d) = SubSeq(before(d), 1,
                                       IF Len(before(d)) < max THEN Len(before(d)) ELSE max)
            /\ Range(result.stats.domainsCapped) =
                  { d \in domains : Len(after(d)) < Len(before(d)) }
            /\ result.stats.domainCapApplied <=> (result.stats.domainsCapped # <<>>)

\* C10: after deduplicateItems returns, every output item's hash is in the
\* store; a call with checkCache = true outputs no item whose canonical URL
\* an earlier call output; and the rows a call adds all belong to items of
\* its output, none to an item it dropped.
C10_OutputRecorded ==
    Returned0 =>
        /\ \A k \in 1..Len(result.items) :
              CheckUrlExists(dedupeCache, << "sha256", CanonicalizeUrl(result.items[k].url) >>)
        /\ call.options.checkCache =>
              \A k \in 1..Len(result.items) :
                  CanonicalizeUrl(result.items[k].url) \notin call.outputBefore
        /\ \A row \in dedupeCache \ call.cacheBefore :
              \E k \in 1..Len(result.items) : row.source_url = result.items[k].url

\* A second call with checkCache = true that was given an item an earlier
\* call had output, and that returned other items, having dropped one.
C10_Witness ==
    /\ Returned0
    /\ nCalls = 2
    /\ call.options.checkCache
    /\ \E i \in 1..Len(call.items) :
          CanonicalizeUrl(call.items[i].url) \in call.outputBefore
    /\ result.items # <<>>
    /\ dedupeCache # call.cacheBefore

(***************************************************************************)
(* The pipeline orchestrator under the streaming route.  Each action is    *)
(* the code that runs from one awaited call's completion to the next       *)
(* await; the client's disconnect (the stream's cancel callback) can only  *)
(* run while a call is awaited.                                            *)
(***************************************************************************)
MaxAnswer == 6
MaxRateLimited == 1

\* The number of queries answered with HTTP 429 so far.
RateLimited(log) == Cardinality({ k \in 1..Len(log) : log[k] = "429" })

Inputs ==
    { [ topic |-> 1, apply_domain_caps |-> cap[1], domain_cap_percent |-> cap[2] ] :
      cap \in { << TRUE, 10 >>, << FALSE, 10 >>, << TRUE, 50 >> } }

\* What the phrase-generating LLM call can give.
Answers ==
    { [ ok |-> FALSE, phrases |-> <<>> ] } \cup
    { [ ok |-> TRUE, phrases |-> [ i \in 1..k |-> i ] ] : k \in 0..MaxAnswer }

\* What the analysing LLM call can give.
LLMResponses ==
    { [ ok |-> FALSE, clusters |-> <<>>, overall_confidence |-> 0 ] } \cup
    { [ ok |-> TRUE,
        clusters |-> << [ label |-> "view", stance |-> "positive", count |-> 1 ] >>,
        overall_confidence |-> c ] : c \in { 0, 90 } }

\* report(stage, progress): one more progress report, a prepended one.
ReportFirst(log, stage, progress) == << << stage, progress >> >> \o log

\* report(stage, progress): onProgress is called with the stage and percent.
Report(log, stage, progress) == Append(log, << stage, progress >>)

RECURSIVE ReportAll(_, _)
ReportAll(log, events) ==
    IF events = <<>> THEN log
    ELSE ReportAll(Report(log, Head(events)[1], Head(events)[2]), Tail(events))

\* sendEvent: nothing is enqueued once the stream is closed.
SendEvent(out, closed, event, a, b) ==
    IF closed THEN out ELSE Append(out, << event, a, b >>)

RECURSIVE SendProgress(_, _, _)
SendProgress(out, closed, events) ==
    IF events = <<>> THEN out
    ELSE SendProgress(SendEvent(out, closed, "progress", Head(events)[1], Head(events)[2]),
                      closed, Tail(events))

\* checkAborted() throws.
CheckAborted(signalAborted) == signalAborted

\* A loop that never looks at the signal.
NeverCancelled(signalAborted) == FALSE

\* if (options.signal?.aborted) break; at the top of the query loop.
CancelledBeforeQuery(signalAborted) == signalAborted

\* Every failed query ends the loop.
AnyErrorBreaks(res) == res # "ok"

\* error.name === 'AbortError' in the query loop's catch.
IsAbortError(res) == res = "abort"

\* Options under which the process stage would consult the store.
ProcessOptionsCached(in) ==
    [ checkCache |-> TRUE, simhashThreshold |-> 10,
      applyDomainCaps |-> in.apply_domain_caps,
      domainCapPercent |-> in.domain_cap_percent ]

\* The options runAnalysis passes to deduplicateItems.
ProcessOptions(in) ==
    [ checkCache |-> FALSE, simhashThreshold |-> 10,
      applyDomainCaps |-> in.apply_domain_caps,
      domainCapPercent |-> in.domain_cap_percent ]

\* processedItems.slice(0, 50)
ItemsForAnalysis(processedItems) ==
    SubSeq(processedItems, 1, IF Len(processedItems) < 50 THEN Len(processedItems) ELSE 50)

\* The stages entered by the running code, noted if the signal is aborted.
Entered(stages) == IF aborted THEN entryAborted \cup stages ELSE entryAborted

\* runAnalysis throws message after making the reports events, and the
\* route's catch block handles it.
Caught(message, events) ==
    /\ reported' = ReportAll(reported, events)
    /\ record' = IF ~(isClosed \/ message = "Analysis cancelled")
                 THEN [ status |-> "failed", error_message |-> message ]
                 ELSE [ status |-> "failed", error_message |-> "Cancelled by user" ]
    /\ sent' = IF ~(isClosed \/ message = "Analysis cancelled")
               THEN SendEvent(SendProgress(sent, isClosed, events), isClosed,
                              "error", message, 0)
               ELSE SendProgress(sent, isClosed, events)
    /\ isClosed' = TRUE
    /\ aborted' = TRUE
    /\ outcome' = IF message = "Analysis cancelled" THEN "cancelled" ELSE "failed"
    /\ pc' = "done"

\* POST: the record is created and set to 'processing', and runAnalysis runs
\* up to the call of generateSearchPhrases.
Start ==
    /\ pc = "request"
    /\ \E in \in Inputs : input' = in
    /\ record' = [ status |-> "processing", error_message |-> "" ]
    /\ ~CheckAborted(aborted)
    /\ reported' = Report(reported, "search_phrases", 0)
    /\ sent' = SendEvent(sent, isClosed, "progress", "search_phrases", 0)
    /\ pc' = "phrases"
    /\ entryAborted' = Entered({ "search_phrases" })
    /\ UNCHANGED << limiterVars, writerVars, fnVars, phraseFailed,
                    dedupeCache, dedupVars, aborted, isClosed, searchPhrases, issued,
                    fetchLog, allCitations, rawItems, dedupeResult, output, outcome,
                    cancelPoint, llmFailed >>

\* cancel(): the client disconnects while a call is awaited.
Cancel ==
    /\ pc \in { "phrases", "fetch", "delay", "analyze" }
    /\ ~isClosed
    /\ isClosed' = TRUE
    /\ aborted' = TRUE
    /\ cancelPoint' = [ pc |-> pc, n |-> Len(issued) ]
    /\ UNCHANGED << limiterVars, writerVars, fnVars, phraseFailed,
                    dedupeCache, dedupVars, pc, input, record, sent, reported,
                    searchPhrases, issued, fetchLog, allCitations, rawItems,
                    dedupeResult, output, outcome, entryAborted, llmFailed >>

\* generateSearchPhrases resolves; the fetch stage starts with its first query.
PhrasesDone ==
    /\ pc = "phrases"
    /\ \E answer \in Answers :
          /\ phraseFailed' = (~answer.ok \/ answer.phrases = <<>>)
          /\ searchPhrases' = GenerateSearchPhrases(input.topic, answer)
          /\ IF CheckAborted(aborted)
             THEN /\ Caught("Analysis cancelled", << << "search_phrases", 100 >> >>)
                  /\ UNCHANGED << issued, entryAborted >>
             ELSE /\ reported' = ReportAll(reported, << << "search_phrases", 100 >>,
                                                       << "fetch", 0 >> >>)
                  /\ sent' = SendProgress(sent, isClosed, << << "search_phrases", 100 >>,
                                                           << "fetch", 0 >> >>)
                  /\ issued' = << searchPhrases'[1] >>
                  /\ pc' = "fetch"
                  /\ entryAborted' = Entered({ "fetch" })
                  /\ UNCHANGED << aborted, isClosed, record, outcome >>
    /\ UNCHANGED << limiterVars, writerVars, fnVars,
                    dedupeCache, dedupVars, input, fetchLog, allCitations, rawItems,
                    dedupeResult, output, cancelPoint, llmFailed >>

\* The process stage ran on raw with d the outcome of its deduplicateItems
\* call; the analyze stage starts unless that call threw.
AfterDedup(raw, d) ==
    /\ dedupeCache' = d.cache
    /\ rawItems' = raw
    /\ IF d.threw
       THEN /\ Caught("database error", << << "fetch", 100 >>, << "process", 0 >>,
                                           << "process", 50 >> >>)
            /\ entryAborted' = Entered({ "process" })
            /\ UNCHANGED dedupeResult
       ELSE /\ reported' = ReportAll(reported,
                             << << "fetch", 100 >>, << "process", 0 >>,
                                << "process", 50 >>, << "process", 100 >>,
                                << "analyze", 0 >> >>)
            /\ sent' = SendProgress(sent, isClosed,
                             << << "fetch", 100 >>, << "process", 0 >>,
                                << "process", 50 >>, << "process", 100 >>,
                                << "analyze", 0 >> >>)
            /\ dedupeResult' = [ items |-> d.items, stats |-> d.stats ]
            /\ entryAborted' = Entered({ "process", "analyze" })
            /\ pc' = "analyze"
            /\ UNCHANGED << aborted, isClosed, record, outcome >>

\* searchMultipleQueries returned the items raw: the fetch stage ends, and
\* unless the signal is aborted the process stage runs (normalizeItems, then
\* deduplicateItems without cache check at threshold 10).
AfterFetch(raw) ==
    IF CheckAborted(aborted)
    THEN /\ Caught("Analysis cancelled", << << "fetch", 100 >> >>)
         /\ rawItems' = raw
         /\ UNCHANGED << dedupeCache, dedupeResult, entryAborted >>
    ELSE \E failAt \in 0..MaxFailAt :
            AfterDedup(raw,
                DeduplicateItems(NormalizeItems(raw), ProcessOptions(input),
                                 dedupeCache, failAt))

\* The query loop ends with the citations collected.
FinishFetch(citations) ==
    /\ AfterFetch(CitationsToItems(UniqueCitations(citations)))
    /\ UNCHANGED issued

\* A query loop that starts two queries at a time.
QueryAhead(citations) ==
    IF Len(issued) + 1 < Len(searchPhrases) /\ ~CancelledBeforeQuery(aborted)
    THEN /\ issued' = issued \o SubSeq(searchPhrases, Len(issued) + 1, Len(issued) + 2)
         /\ pc' = "fetch"
         /\ UNCHANGED << dedupeCache, aborted, isClosed, record, sent, reported,
                         rawItems, dedupeResult, outcome, entryAborted >>
    ELSE FinishFetch(citations)

\* The next iteration of the query loop: the next query is issued unless
\* the list is exhausted or the signal is aborted.
NextQuery(citations) ==
    IF Len(issued) < Len(searchPhrases) /\ ~CancelledBeforeQuery(aborted)
    THEN /\ issued' = Append(issued, searchPhrases[Len(issued) + 1])
         /\ pc' = "fetch"
         /\ UNCHANGED << dedupeCache, aborted, isClosed, record, sent, reported,
                         rawItems, dedupeResult, outcome, entryAborted >>
    ELSE FinishFetch(citations)

\* searchWeb settles: with its citations, with an error (a network error,
\* or "429" for the error thrown on an HTTP 429 response), or (only once
\* the signal is aborted) with an AbortError.
FetchDone ==
    /\ pc = "fetch"
    /\ \E res \in { "ok", "error" }
                  \cup (IF RateLimited(fetchLog) < MaxRateLimited THEN { "429" } ELSE {})
                  \cup (IF aborted THEN { "abort" } ELSE {}) :
          /\ fetchLog' = Append(fetchLog, res)
          /\ IF res = "ok"
             THEN /\ allCitations' = allCitations \o SearchWeb(issued[Len(issued)])
                  /\ pc' = "delay"
                  /\ UNCHANGED << dedupeCache, aborted, isClosed, record, sent, reported,
                                  issued, rawItems, dedupeResult, outcome, entryAborted >>
             ELSE /\ allCitations' = allCitations
                  /\ IF IsAbortError(res)
                     THEN FinishFetch(allCitations)
                     ELSE NextQuery(allCitations)
    /\ UNCHANGED << limiterVars, writerVars, fnVars, phraseFailed,
                    dedupVars, input, searchPhrases, output, cancelPoint, llmFailed >>

\* The 500 ms pause after a successful query is over.
DelayDone ==
    /\ pc = "delay"
    /\ NextQuery(allCitations)
    /\ UNCHANGED << limiterVars, writerVars, fnVars, phraseFailed,
                    dedupVars, input, searchPhrases, fetchLog, allCitations, output,
                    cancelPoint, llmFailed >>

\* runAnalysis returned what analysis gave; the route validates and stores it
\* unless the stream is closed.
Deliver(analysis, valid) ==
    /\ reported' = ReportAll(reported, << << "analyze", 100 >>, << "assemble", 0 >>,
                                          << "assemble", 100 >> >>)
    /\ entryAborted' = Entered({ "assemble" })
    /\ output' = [ status |-> "completed",
                   n_raw |-> Len(rawItems),
                   n_after_dedupe |-> Len(dedupeResult.items),
                   n_analyzed |-> Len(ItemsForAnalysis(dedupeResult.items)),
                   domain_caps_applied |-> dedupeResult.stats.domainCapApplied,
                   clusters |-> analysis.clusters,
                   overall |-> analysis.overall,
                   fallback |-> analysis.fallback ]
    /\ outcome' = "returned"
    /\ pc' = "done"
    /\ IF isClosed
       THEN UNCHANGED << record, sent, isClosed, aborted >>
       ELSE /\ record' = IF valid
                         THEN [ status |-> "completed", error_message |-> "" ]
                         ELSE record
            /\ sent' = SendEvent(SendProgress(sent, isClosed,
                                    << << "analyze", 100 >>, << "assemble", 0 >>,
                                       << "assemble", 100 >> >>),
                                 isClosed,
                                 IF valid THEN "complete" ELSE "error",
                                 IF valid THEN "" ELSE "Output validation failed", 0)
            /\ isClosed' = TRUE
            /\ aborted' = TRUE

\* analyzeContent resolves; the assemble stage runs and runAnalysis returns.
AnalyzeDone ==
    /\ pc = "analyze"
    /\ \E llm \in LLMResponses, valid \in BOOLEAN :
          /\ llmFailed' = ~llm.ok
          /\ Deliver(AnalyzeContent(ItemsForAnalysis(dedupeResult.items), llm), valid)
    /\ UNCHANGED << limiterVars, writerVars, fnVars, phraseFailed,
                    dedupeCache, dedupVars, input, searchPhrases, issued, fetchLog,
                    allCitations, rawItems, dedupeResult, cancelPoint >>

\* A request arrives with the store empty or filled by earlier analyses.
Init ==
    /\ dedupeCache \in { {}, StoreOfEverything }
    /\ call = NoCall
    /\ result = NoResult
    /\ nCalls = 0
    /\ outputUrls = {}
    /\ PipeIdle
    /\ LimiterIdle
    /\ WritersIdle
    /\ FnIdle

Next == Start \/ Cancel \/ PhrasesDone \/ FetchDone \/ DelayDone \/ AnalyzeDone

Spec == Init /\ [][Next]_vars

(***************************************************************************)
(* Properties of the pipeline.                                             *)
(***************************************************************************)
StageOrder ==
    << << "search_phrases", 0 >>, << "search_phrases", 100 >>,
       << "fetch", 0 >>, << "fetch", 100 >>,
       << "process", 0 >>, << "process", 100 >>,
       << "analyze", 0 >>, << "analyze", 100 >>,
       << "assemble", 0 >>, << "assemble", 100 >> >>

\* The stage entry (0%) and exit (100%) reports of a log, in order.
EntryExit(log) ==
    FilterIdx(log, { k \in 1..Len(log) : log[k][2] \in { 0, 100 } }, 1)

IsPrefix(a, b) == Len(a) <= Len(b) /\ a = SubSeq(b, 1, Len(a))

\* The citations of the first k of the queries that ended "ok", in order.
RECURSIVE SuccessfulCitations(_, _, _)
SuccessfulCitations(queries, log, k) ==
    IF k = 0 THEN <<>>
    ELSE SuccessfulCitations(queries, log, k - 1) \o
         (IF k <= Len(log) /\ log[k] = "ok" THEN SearchWeb(queries[k]) ELSE <<>>)

\* C1: the entry and exit progress reports of a run come in the fixed order
\* search_phrases, fetch, process, analyze, assemble, each stage's 0% before
\* its 100% and that before the next stage's 0%, none skipped or repeated;
\* a run that stops early has made a prefix of that sequence.
C1_StageOrder == IsPrefix(EntryExit(reported), StageOrder)

\* A run that went through all five stages, with its interior report.
C1_Witness ==
    /\ pc = "done"
    /\ outcome = "returned"
    /\ EntryExit(reported) = StageOrder
    /\ << "process", 50 >> \in Range(reported)

\* C2: the signal is checked before each of the five stages: no stage is
\* entered while the signal is aborted, and a run whose client disconnected
\* ends with the cancellation outcome, not with a result.
C2_CheckedBeforeEveryStage ==
    /\ entryAborted = {}
    /\ (pc = "done" /\ cancelPoint # NoCancel) => outcome = "cancelled"

\* C3: when the client disconnects between queries k and k+1, no query after
\* the k-th is issued, the fetch stage's items are exactly those of the
\* successful ones of the first k queries, and the run ends cancelled.
C3_CancelBetweenQueries ==
    cancelPoint.pc = "delay" =>
        /\ issued = SubSeq(searchPhrases, 1, cancelPoint.n)
        /\ pc = "done" =>
              /\ rawItems = CitationsToItems(UniqueCitations(
                                SuccessfulCitations(searchPhrases, fetchLog, cancelPoint.n)))
              /\ outcome = "cancelled"

\* The client disconnected between queries 2 and 3 of 5 and the run ended.
C3_Witness ==
    /\ cancelPoint = [ pc |-> "delay", n |-> 2 ]
    /\ Len(searchPhrases) = 5
    /\ pc = "done"
    /\ rawItems # <<>>

\* C4: the record of a cancelled run does not end 'failed' and no 'error'
\* event is sent for it; only an unexpected exception makes a run 'failed'.
C4_CancelledNotFailed ==
    /\ outcome = "cancelled" =>
          /\ record.status # "failed"
          /\ \A k \in 1..Len(sent) : sent[k][1] # "error"
    /\ record.status = "failed" => outcome = "failed"

\* C5: a query that fails with an ordinary error is skipped: unless the
\* client disconnects during the fetch stage every phrase is queried, the
\* items of all successful queries are kept and the process stage starts;
\* failed queries never make the run fail.
C5_FailuresSkipped ==
    (<< "fetch", 100 >> \in Range(reported) /\ cancelPoint.pc \notin { "fetch", "delay" }) =>
        /\ issued = searchPhrases
        /\ Len(fetchLog) = Len(issued)
        /\ rawItems = CitationsToItems(UniqueCitations(
                          SuccessfulCitations(searchPhrases, fetchLog, Len(searchPhrases))))
        /\ << "process", 0 >> \in Range(reported)
        /\ outcome = "failed" => record.error_message = "database error"

\* A query failed, a later one succeeded, and the analyze stage was reached.
C5_Witness ==
    /\ pc = "analyze"
    /\ cancelPoint = NoCancel
    /\ \E i, j \in 1..Len(fetchLog) :
          i < j /\ fetchLog[i] = "error" /\ fetchLog[j] = "ok"
    /\ rawItems # <<>>

\* C6: when the analysing LLM call fails, the run reaches the assemble stage
\* and returns status 'completed'; its clusters are one per source name of
\* the analysed items, at most 5, all of stance 'unclear', and the overall
\* confidence is at most 0.3.
C6_FallbackCompletes ==
    (pc = "done" /\ llmFailed) =>
        LET items   == ItemsForAnalysis(dedupeResult.items)
            sources == { items[k].source_name : k \in 1..Len(items) }
        IN  /\ outcome = "returned"
            /\ output.status = "completed"
            /\ << "assemble", 0 >> \in Range(reported)
            /\ Len(output.clusters) <= 5
            /\ Len(output.clusters) =
                  (IF Cardinality(sources) < 5 THEN Cardinality(sources) ELSE 5)
            /\ \A i \in 1..Len(output.clusters) :
                  /\ output.clusters[i].stance = "unclear"
                  /\ output.clusters[i].label \in sources
                  /\ output.clusters[i].count =
                        Cardinality({ k \in 1..Len(items) :
                                        items[k].source_name = output.clusters[i].label })
                  /\ \A j \in 1..Len(output.clusters) :
                        output.clusters[j].label = output.clusters[i].label => i = j
            /\ output.overall <= 30

\* The LLM call failed on items of six sources; five clusters came back.
C6_Witness ==
    /\ pc = "done"
    /\ llmFailed
    /\ Cardinality({ dedupeResult.items[k].source_name :
                       k \in 1..Len(dedupeResult.items) }) > 5
    /\ Len(output.clusters) = 5

\* What the process stage decides on the fetched items when no store access
\* fails and the store is empty.
DecidedItems ==
    DeduplicateItems(NormalizeItems(rawItems), ProcessOptions(input), {}, 0).items

\* C11: a failing read or write of the dedup store is not escalated: once
\* the process stage has run, the run has not failed and the stage's result
\* is the one decided by the URL, content and domain-cap stages.
C11_StoreFailureNotEscalated ==
    << "process", 50 >> \in Range(reported) =>
        /\ outcome # "failed"
        /\ dedupeResult.items = DecidedItems

\* C13: the items handed to the analyze stage depend on the fetched items
\* and the options only, not on what the store held before the run.
C13_StoreIndependent ==
    (pc = "analyze" \/ outcome = "returned") =>
        dedupeResult.items = DecidedItems

\* A run on a store that already held every fetched URL reached the
\* analyze stage with items.
C13_Witness ==
    /\ pc = "analyze"
    /\ dedupeCache = StoreOfEverything
    /\ dedupeResult.items # <<>>
    /\ \A k \in 1..Len(rawItems) : CheckUrlExists(dedupeCache, HashUrl(rawItems[k].url))

\* The number of searchWeb calls up to the k-th made with the k-th's query.
Tries(k) == Cardinality({ j \in 1..k : issued[j] = issued[k] })

\* C17: every query goes through the retry executor: a query that failed
\* with a rate-limit error is tried again, up to maxRetries more times,
\* before the loop moves on to the next phrase.
C17_FetchRetried ==
    \A k \in 1..Len(fetchLog) :
        (fetchLog[k] = "429" /\ Tries(k) <= DEFAULT_OPTIONS.maxRetries /\ Len(issued) > k)
            => issued[k + 1] = issued[k]

\* C18: a disconnect while a query is in flight does not interrupt the
\* query: it ends as it would have without the disconnect, never with an
\* AbortError.
C18_InFlightCompletes ==
    (cancelPoint.pc = "fetch" /\ Len(fetchLog) >= cancelPoint.n) =>
        fetchLog[cancelPoint.n] \in { "ok", "error", "429" }

\* The number of searchWeb calls that have not settled.
InFlight == Len(issued) - Len(fetchLog)

C20_FallbackPhrases ==
    phraseFailed =>
        /\ searchPhrases = [ k \in 1..6 |-> 10 * input.topic + (k - 1) ]
        /\ << "search_phrases", 100 >> \in Range(reported)
        /\ cancelPoint.pc # "phrases" =>
              /\ issued # <<>>
              /\ issued = SubSeq(searchPhrases, 1, Len(issued))
        /\ outcome = "failed" => record.error_message = "database error"

\* Phrase generation failed and all six fallback phrases were queried.
C20_Witness ==
    /\ phraseFailed
    /\ pc = "analyze"
    /\ Len(issued) = 6

(***************************************************************************)
(* Specification SpecWriters: several runs are in the cache-update step of *)
(* deduplicateItems at once (server processes sharing the database file);  *)
(* each INSERT OR IGNORE statement is one step, in any interleaving.       *)
(***************************************************************************)
MaxWriters == 2

\* The lists of final items a run can be writing.
FinalItemLists ==
    { DeduplicateItems(b, [ DefaultOptions EXCEPT !.checkCache = FALSE,
                                                  !.simhashThreshold = 10,
                                                  !.applyDomainCaps = FALSE ],
                       {}, 0).items : b \in StoreBatches }

InitWriters ==
    /\ dedupeCache \in { {}, StoreAfterRun }
    /\ call = NoCall
    /\ result = NoResult
    /\ nCalls = 0
    /\ outputUrls = {}
    /\ PipeIdle
    /\ LimiterIdle
    /\ writers \in [ 1..MaxWriters -> FinalItemLists ]
    /\ lastWrite = NoWrite
    /\ FnIdle

\* The row addToDedupeCache is called with for item.
RowOf(item) ==
    [ url_hash |-> HashUrl(item.url), content_simhash |-> SimHashOf(item.text),
      source_url |-> item.url ]

\* Run w executes the addToDedupeCache call of its next final item.
Write(w) ==
    /\ writers[w] # <<>>
    /\ dedupeCache' = AddToDedupeCache(dedupeCache, RowOf(Head(writers[w])).url_hash,
                                       RowOf(Head(writers[w])).content_simhash,
                                       RowOf(Head(writers[w])).source_url)
    /\ lastWrite' = [ writer |-> w, row |-> RowOf(Head(writers[w])),
                      before |-> dedupeCache ]
    /\ writers' = [ writers EXCEPT ![w] = Tail(@) ]
    /\ UNCHANGED << dedupVars, pipeVars, limiterVars, fnVars >>

NextWriters == \E w \in DOMAIN writers : Write(w)

SpecWriters == InitWriters /\ [][NextWriters]_vars

\* C12: however the runs' writes interleave, the store holds at most one
\* row per canonical-URL hash; a write for a hash that is present changes
\* nothing (the row that was there stays as it was), and any other write
\* adds exactly its row.
C12_OneRecordPerHash ==
    /\ \A r1, r2 \in dedupeCache : r1.url_hash = r2.url_hash => r1 = r2
    /\ lastWrite.writer # 0 =>
          IF CheckUrlExists(lastWrite.before, lastWrite.row.url_hash)
          THEN dedupeCache = lastWrite.before
          ELSE dedupeCache = lastWrite.before \cup { lastWrite.row }

\* A run wrote a row whose hash another source URL already held.
C12_Witness ==
    /\ lastWrite.writer # 0
    /\ lastWrite.row \notin lastWrite.before
    /\ CheckUrlExists(lastWrite.before, lastWrite.row.url_hash)
    /\ dedupeCache = lastWrite.before

(***************************************************************************)
(* The rate limiter.  Time is counted in the unit of the options'          *)
(* baseDelayMs; a timer fires at the time it was set for.  What fn() ends  *)
(* with is [ok, isError, message]: its value (ok), or the value it threw,  *)
(* an Error object (isError) with a message, a sequence of words, or not.  *)
(***************************************************************************)
Success == [ ok |-> TRUE, isError |-> FALSE, message |-> <<>> ]

Error(words) == [ ok |-> FALSE, isError |-> TRUE, message |-> words ]

ETooMany == Error(<< "Too", "Many", "Requests" >>)
E500 == Error(<< "Internal", "server", "error" >>)

\* String.prototype.toLowerCase on one word.
ToLowerCase(word) ==
    CASE word = "Rate" -> "rate"
      [] word = "Too" -> "too"
      [] word = "Many" -> "many"
      [] word = "Requests" -> "requests"
      [] word = "OpenRouter" -> "openrouter"
      [] word = "API" -> "api"
      [] word = "Internal" -> "internal"
      [] OTHER -> word

\* String.prototype.includes, on sequences of words.
Includes(message, pattern) ==
    \E i \in 1..Len(message) :
        /\ i + Len(pattern) - 1 <= Len(message)
        /\ SubSeq(message, i, i + Len(pattern) - 1) = pattern

\* isRateLimitError
IsRateLimitError(error) ==
    IF error.isError
    THEN LET message == [ k \in 1..Len(error.message) |-> ToLowerCase(error.message[k]) ]
         IN  \/ Includes(message, << "rate", "limit" >>)
             \/ Includes(message, << "too", "many", "requests" >>)
             \/ Includes(message, << "429" >>)
    ELSE FALSE

\* A predicate that calls every error retryable.
RetryAlways(pred, error) == TRUE

\* shouldRetry(error): the caller's predicate, by default () => true.
ShouldRetry(pred, error) ==
    IF pred = "default" THEN TRUE ELSE IsRateLimitError(error)

\* this.requests.filter(r => r.timestamp > windowStart) at time t
Purge(reqs, t, opts) ==
    FilterIdx(reqs, { k \in 1..Len(reqs) : reqs[k] > t - opts.windowMs }, 1)

\* A limiter that never waits.
NoWait(reqs, t, opts) == 0

\* waitTime: oldestInWindow.timestamp + windowMs - now
WaitTime(reqs, t, opts) == reqs[1] + opts.windowMs - t

Min(a, b) == IF a < b THEN a ELSE b

RECURSIVE Pow2(_)
Pow2(n) == IF n = 0 THEN 1 ELSE 2 * Pow2(n - 1)

\* Math.round(x) for x = num / den >= 0
Round(num, den) == (2 * num + den) \div (2 * den)

\* finalDelay: the backoff delay with jitter, jitter in thousandths of
\* Math.random() * 2 - 1.
FinalDelay(opts, attempt, jitter) ==
    LET delay == Min(opts.baseDelayMs * Pow2(attempt), opts.maxDelayMs)
    IN  Round(delay * 10000 + delay * jitter, 10000)

\* getStatus() at time t
GetStatus(reqs, t, opts) ==
    [ remaining |-> opts.requestsPerWindow - Len(Purge(reqs, t, opts)),
      limit |-> opts.requestsPerWindow, windowMs |-> opts.windowMs ]

(***************************************************************************)
(* Specification SpecLimiter: one RateLimiter and a single caller running  *)
(* executeWithRetry calls one after another.  A caller is                  *)
(*   pc      : "idle", "slot" (asleep in waitForSlot), "fn" (awaiting      *)
(*             fn()), "backoff" (asleep before a retry), "returned" or     *)
(*             "threw"                                                     *)
(*   pred    : its shouldRetry predicate                                   *)
(*   attempt : the loop variable of executeWithRetry                       *)
(*   asked   : when it last called waitForSlot                             *)
(*   wakeAt  : when its timer fires                                        *)
(*   tries   : how each fn() call of the current executeWithRetry ended    *)
(*   thrown  : what executeWithRetry threw                                 *)
(***************************************************************************)
MaxRetryLimit == 1
MaxRequestsPerWindow == 2
MaxWindowMs == 3
MaxAdmissions == 2
MaxTime == 4

LimiterChoices ==
    { [ maxRetries |-> m, baseDelayMs |-> 1, maxDelayMs |-> 2,
        requestsPerWindow |-> r, windowMs |-> w ] :
      m \in 0..MaxRetryLimit, r \in 1..MaxRequestsPerWindow, w \in 2..MaxWindowMs }

CallerNames == { "a", "b" }
FnErrors == { ETooMany, E500 }
Predicates == { "default", "isRateLimitError" }
Jitters == { -1000, 0, 999 }

IdleCaller ==
    [ pc |-> "idle", pred |-> "default", attempt |-> 0, asked |-> 0, wakeAt |-> 0,
      tries |-> <<>>, thrown |-> Success ]

\* A limiter just constructed with the callers active, none of which has
\* made a request.
LimiterWith(active) ==
    /\ dedupeCache = {}
    /\ call = NoCall
    /\ result = NoResult
    /\ nCalls = 0
    /\ outputUrls = {}
    /\ PipeIdle
    /\ WritersIdle
    /\ FnIdle
    /\ limiterOptions \in LimiterChoices
    /\ requests = <<>>
    /\ now = 0
    /\ callers = [ c \in active |-> IdleCaller ]
    /\ admissions = <<>>

InitLimiter == LimiterWith({ "a" })

\* this.requests.push({ timestamp: Date.now() }) by caller c, whose record
\* is rec; waitForSlot returns and fn() is called.
Admit(c, rec, reqs) ==
    /\ requests' = Append(reqs, now)
    /\ admissions' = Append(admissions, [ caller |-> c, asked |-> rec.asked, at |-> now ])
    /\ callers' = [ callers EXCEPT ![c] = [ rec EXCEPT !.pc = "fn", !.asked = 0,
                                                        !.wakeAt = 0 ] ]

\* waitForSlot up to its return or its sleep; purged is this.requests
\* after the filter.
Suspend(c, rec, purged) ==
    IF Len(purged) < limiterOptions.requestsPerWindow
    THEN Admit(c, rec, purged)
    ELSE IF WaitTime(purged, now, limiterOptions) > 0
    THEN /\ requests' = purged
         /\ callers' = [ callers EXCEPT ![c] =
                           [ rec EXCEPT !.pc = "slot",
                                        !.wakeAt = now + WaitTime(purged, now, limiterOptions) ] ]
         /\ UNCHANGED admissions
    ELSE Admit(c, rec, purged)

WaitForSlot(c, rec) ==
    Suspend(c, [ rec EXCEPT !.asked = now ], Purge(requests, now, limiterOptions))

\* Caller c, done with its previous request if it made one, calls
\* executeWithRetry(fn, shouldRetry).
Call(c) ==
    /\ callers[c].pc \in { "idle", "returned", "threw" }
    /\ Len(admissions) < MaxAdmissions
    /\ \E pred \in Predicates :
          WaitForSlot(c, [ IdleCaller EXCEPT !.pred = pred ])
    /\ UNCHANGED << dedupeCache, dedupVars, pipeVars, writerVars, fnVars,
                    limiterOptions, now >>

\* The sleep in waitForSlot is over.
SlotWake(c) ==
    /\ callers[c].pc = "slot"
    /\ now >= callers[c].wakeAt
    /\ Admit(c, callers[c], requests)
    /\ UNCHANGED << dedupeCache, dedupVars, pipeVars, writerVars, fnVars,
                    limiterOptions, now >>

\* fn() settles with out: its value or the error it threw.
Settle(c, out) ==
    IF out.ok
    THEN callers' = [ callers EXCEPT ![c].pc = "returned", ![c].tries = Append(@, out) ]
    ELSE IF callers[c].attempt = limiterOptions.maxRetries
            \/ ~ShouldRetry(callers[c].pred, out)
    THEN callers' = [ callers EXCEPT ![c].pc = "threw", ![c].tries = Append(@, out),
                                     ![c].thrown = out ]
    ELSE \E jitter \in Jitters :
            callers' = [ callers EXCEPT
                           ![c].pc = "backoff", ![c].tries = Append(@, out),
                           ![c].wakeAt = now + FinalDelay(limiterOptions,
                                                          callers[c].attempt, jitter) ]

FnDone(c) ==
    /\ callers[c].pc = "fn"
    /\ \E out \in { Success } \cup FnErrors : Settle(c, out)
    /\ UNCHANGED << dedupeCache, dedupVars, pipeVars, writerVars, fnVars,
                    limiterOptions, requests, now, admissions >>

\* The backoff sleep is over: the next attempt starts with waitForSlot.
BackoffWake(c) ==
    /\ callers[c].pc = "backoff"
    /\ now >= callers[c].wakeAt
    /\ WaitForSlot(c, [ callers[c] EXCEPT !.attempt = @ + 1 ])
    /\ UNCHANGED << dedupeCache, dedupVars, pipeVars, writerVars, fnVars,
                    limiterOptions, now >>

\* getStatus(): old timestamps are dropped from this.requests; the value
\* returned is GetStatus(requests, now, limiterOptions).
Status ==
    /\ requests' = Purge(requests, now, limiterOptions)
    /\ UNCHANGED << dedupeCache, dedupVars, pipeVars, writerVars, fnVars,
                    limiterOptions, now, callers, admissions >>

\* Time passes, unless a timer is due.
Tick ==
    /\ now < MaxTime
    /\ \A c \in DOMAIN callers :
          callers[c].pc \in { "slot", "backoff" } => callers[c].wakeAt > now
    /\ now' = now + 1
    /\ UNCHANGED << dedupeCache, dedupVars, pipeVars, writerVars, fnVars,
                    limiterOptions, requests, callers, admissions >>

NextLimiter ==
    \/ \E c \in DOMAIN callers : Call(c)
    \/ \E c \in DOMAIN callers : SlotWake(c)
    \/ \E c \in DOMAIN callers : FnDone(c)
    \/ \E c \in DOMAIN callers : BackoffWake(c)
    \/ Status
    \/ Tick

SpecLimiter == InitLimiter /\ [][NextLimiter]_vars

(***************************************************************************)
(* Specification SpecCallers: the same limiter shared by two callers.      *)
(***************************************************************************)
InitCallers == LimiterWith(CallerNames)

NextCallers == NextLimiter

SpecCallers == InitCallers /\ [][NextCallers]_vars

\* The requests admitted in the window that ends at time t.
AdmittedInWindow(t) ==
    { k \in 1..Len(admissions) :
        admissions[k].at > t - limiterOptions.windowMs /\ admissions[k].at <= t }

\* C14: whatever the number of callers, in every interval of length
\* windowMs at most requestsPerWindow requests are admitted, and getStatus()
\* never reports a negative remaining.
C14_RateBounded ==
    /\ \A t \in 0..now :
          Cardinality(AdmittedInWindow(t)) <= limiterOptions.requestsPerWindow
    /\ GetStatus(requests, now, limiterOptions).remaining >= 0

\* The admissions before the k-th whose timestamp was inside the window
\* when the k-th request asked for its slot.
InsideWindow(k) ==
    { j \in 1..(k - 1) :
        admissions[j].at > admissions[k].asked - limiterOptions.windowMs }

\* The smallest element of a non-empty set of numbers.
Least(S) == CHOOSE x \in S : \A y \in S : x <= y

\* C15: for a single caller, a request that finds fewer than
\* requestsPerWindow timestamps inside the window is admitted at once; any
\* other is admitted exactly when the oldest of them leaves the window,
\* windowMs after that request was admitted.
C15_SingleCallerWait ==
    DOMAIN callers = { "a" } =>
        \A k \in 1..Len(admissions) :
            IF Cardinality(InsideWindow(k)) < limiterOptions.requestsPerWindow
            THEN admissions[k].at = admissions[k].asked
            ELSE admissions[k].at =
                    Least({ admissions[j].at : j \in InsideWindow(k) })
                    + limiterOptions.windowMs

\* A single caller's request had to wait for the oldest timestamp to leave
\* the window.
C15_Witness ==
    /\ DOMAIN callers = { "a" }
    /\ \E k \in 1..Len(admissions) :
          /\ Cardinality(InsideWindow(k)) = limiterOptions.requestsPerWindow
          /\ admissions[k].at > admissions[k].asked

\* Whether the caller's predicate makes error retryable.
Retryable(pred, error) == pred = "default" \/ IsRateLimitError(error)

\* C16: executeWithRetry calls fn at most maxRetries + 1 times; every call
\* but the last failed with an error the caller's predicate makes
\* retryable; it returns on the first success, and it throws the last
\* call's error, unchanged, when that error is not retryable or followed
\* maxRetries retries.
C16_RetryContract ==
    \A c \in DOMAIN callers :
        LET r == callers[c]
            n == Len(r.tries)
        IN  /\ n <= limiterOptions.maxRetries + 1
            /\ \A i \in 1..(n - 1) : ~r.tries[i].ok /\ Retryable(r.pred, r.tries[i])
            /\ r.pc \in { "slot", "fn" } => n = r.attempt
            /\ r.pc = "backoff" => n = r.attempt + 1
            /\ r.pc = "returned" => r.tries[n].ok
            /\ r.pc = "threw" =>
                  /\ ~r.tries[n].ok
                  /\ r.thrown = r.tries[n]
                  /\ n = limiterOptions.maxRetries + 1 \/ ~Retryable(r.pred, r.tries[n])

\* executeWithRetry threw a retryable error after its last retry.
C16_Witness ==
    \E c \in DOMAIN callers :
        /\ callers[c].pc = "threw"
        /\ callers[c].pred = "isRateLimitError"
        /\ limiterOptions.maxRetries > 0
        /\ Len(callers[c].tries) = limiterOptions.maxRetries + 1
        /\ callers[c].thrown = ETooMany

(***************************************************************************)
(* Specification SpecHash: the exported functions of the hashing engine    *)
(* called on their own, one call on texts or fingerprints drawn from small  *)
(* sets.                                                                   *)
(***************************************************************************)
MaxTexts == 3

\* Short texts: no letter at all, fewer words than a shingle, an even
\* number of shingles (so that votes can tie), a word without letters
\* among others.
ShortTexts ==
    { << 0 >>, << 0, 0 >>, << 2 >>, << 1, 2 >>, << 1, 2, 3, 4 >>,
      << 4, 0, 4, 1 >>, << 3, 1, 4, 1, 5 >> }

HashTexts == Texts \cup ShortTexts

\* The texts that lists for findNearDuplicateGroups are made of (a list may
\* hold a text several times).
GroupTexts == { TextA, TextB, TextC, TextD, TextE, <<>> }

OnesHash == [ c \in 1..HexDigits |-> 15 ]

\* Fingerprints of the full width, and hex strings of another width.
Fingerprints ==
    { SimHashTable[t] : t \in GroupTexts }
        \cup { ZeroHash, OnesHash,
               SubSeq(OnesHash, 1, HexDigits - 1), SubSeq(ZeroHash, 1, 8),
               << 10 >>, << 5 >> }

Distances == { 0, 3, DEFAULT_SIMHASH_THRESHOLD, 10, HASH_BITS }

InitHash == InitStore

Apply(fn, args, value) ==
    /\ applied' = [ fn |-> fn, args |-> args, value |-> value ]
    /\ UNCHANGED << dedupeCache, dedupVars, pipeVars, limiterVars, writerVars >>

ApplyComputeSimHash ==
    /\ applied = NoApplication
    /\ \E text \in HashTexts :
        Apply("computeSimHash", << text >>, ComputeSimHash(text))

ApplyHammingDistance ==
    /\ applied = NoApplication
    /\ \E hash1 \in Fingerprints, hash2 \in Fingerprints :
        Apply("hammingDistance", << hash1, hash2 >>, HammingDistance(hash1, hash2))

ApplyFindNearDuplicateGroups ==
    /\ applied = NoApplication
    /\ \E texts \in SeqsUpTo(GroupTexts, MaxTexts), maxDistance \in Distances :
        Apply("findNearDuplicateGroups", << texts, maxDistance >>,
              FindNearDuplicateGroups(texts, maxDistance))

NextHash ==
    \/ ApplyComputeSimHash
    \/ ApplyHammingDistance
    \/ ApplyFindNearDuplicateGroups

SpecHash == InitHash /\ [][NextHash]_vars

\* Bit i (0 = least significant) of a fingerprint in hex.
BitOf(hash, i) == (hash[Len(hash) - (i \div 4)] \div (2 ^ (i % 4))) % 2

\* Whether texts[i] and texts[j] are within maxDistance of each other.
Near(texts, i, j, maxDistance) ==
    HammingDistance(SimHashOf(texts[i]), SimHashOf(texts[j])).distance <= maxDistance

\* A call findNearDuplicateGroups([A, B, C], maxDistance) where A is near B
\* and B is near C but A is not near C.
Chain ==
    /\ applied.fn = "findNearDuplicateGroups"
    /\ Len(applied.args[1]) = 3
    /\ Near(applied.args[1], 1, 2, applied.args[2])
    /\ Near(applied.args[1], 2, 3, applied.args[2])
    /\ ~Near(applied.args[1], 1, 3, applied.args[2])

\* C21 as stated: for three texts A, B, C in this order where A is near B,
\* B is near C and A is not near C, all three indices are returned in one
\* group.
C21_ChainInOneGroup ==
    Chain => \E g \in 1..Len(applied.value) :
                 { 1, 2, 3 } \subseteq Range(applied.value[g])

\* C21 amended: for such three texts the only group returned is [A, B]; C,
\* which is not near the seed A, is in no group.
C21_ChainSplitsAtSeed ==
    Chain => applied.value = << << 1, 2 >> >>

C21_Witness ==
    /\ Chain
    /\ applied.value # <<>>
    /\ \A g \in 1..Len(applied.value) : 3 \notin Range(applied.value[g])

\* The shingles of a text whose hash has bit i set to b.
Voters(text, i, b) ==
    { k \in 1..Len(Tokenize(text)) : HashToken(Tokenize(text)[k])[i] = b }

\* C22: for every non-empty text, bit i of computeSimHash is 1 exactly when
\* more shingle hashes have bit i set than have it clear (a tie gives 0);
\* the result always has 16 hex digits, and an empty or all-blank text gives
\* the all-zero fingerprint.
C22_BitVoting ==
    applied.fn = "computeSimHash" =>
        LET text == applied.args[1]
            hash == applied.value
        IN  /\ Len(hash) = HexDigits
            /\ HexDigits * 4 = HASH_BITS
            /\ \A c \in 1..Len(hash) : hash[c] \in 0..15
            /\ text = <<>> => hash = ZeroHash
            /\ text # <<>> =>
                  \A i \in 0..(HASH_BITS - 1) :
                      BitOf(hash, i) = 1 <=>
                          Cardinality(Voters(text, i, 1)) >
                          Cardinality(Voters(text, i, 0))

\* A text of several shingles whose votes tie on one bit, which is 0 in the
\* fingerprint, while another bit is 1.
C22_Witness ==
    /\ applied.fn = "computeSimHash"
    /\ Len(Tokenize(applied.args[1])) > 1
    /\ \E i \in 0..(HASH_BITS - 1) :
          /\ Cardinality(Voters(applied.args[1], i, 1)) =
             Cardinality(Voters(applied.args[1], i, 0))
          /\ BitOf(applied.value, i) = 0
    /\ \E i \in 0..(HASH_BITS - 1) : BitOf(applied.value, i) = 1

\* The bit positions at which two fingerprints of one width differ.
DifferingBits(a, b) ==
    { i \in 0..(4 * Len(a) - 1) : BitOf(a, i) # BitOf(b, i) }

\* C23: for fingerprints a, b of equal width hammingDistance(a, b) is the
\* number of differing bits, it is 0 for a = b, equal to hammingDistance(b, a),
\* and 64 between the all-zero and the all-one 64-bit fingerprints; for
\* different widths it throws the length-mismatch error and returns nothing.
C23_HammingDistance ==
    applied.fn = "hammingDistance" =>
        LET a == applied.args[1]
            b == applied.args[2]
        IN  /\ Len(a) = Len(b) =>
                  /\ ~applied.value.threw
                  /\ applied.value.distance = Cardinality(DifferingBits(a, b))
                  /\ a = b => applied.value.distance = 0
                  /\ applied.value = HammingDistance(b, a)
                  /\ (a = ZeroHash /\ b = OnesHash) => applied.value.distance = HASH_BITS
            /\ Len(a) # Len(b) =>
                  /\ applied.value.threw
                  /\ applied.value.message = "Hash lengths must match"

\* Two different fingerprints of the full width that differ in several bits
\* of one hex digit.
C23_Witness ==
    /\ applied.fn = "hammingDistance"
    /\ Len(applied.args[1]) = HexDigits
    /\ Len(applied.args[2]) = HexDigits
    /\ ~applied.value.threw
    /\ \E c \in 1..HexDigits :
          PopCount4(Xor4(applied.args[1][c], applied.args[2][c])) > 1
    /\ applied.value.distance \in 2..(HASH_BITS - 1)

\* The indices that were visited when the outer loop reached index i: the
\* members of the groups of earlier seeds.
VisitedAt(groups, i) ==
    UNION { Range(groups[g]) : g \in { h \in 1..Len(groups) : groups[h][1] < i } }

\* The indices the outer loop found unvisited, each the seed of a group of
\* one or more: those that no group lists as a later member.
Seeds(groups, n) ==
    (1..n) \ UNION { { groups[g][k] : k \in 2..Len(groups[g]) } : g \in 1..Len(groups) }

MaxParams == 2

\* Query parameters: plain ones, one key with two values, one spelt in
\* upper case, and tracking parameters in lower and in upper case.
Params ==
    { Param("a", FALSE, "1"), Param("a", FALSE, "2"), Param("z", FALSE, "1"),
      Param("id", TRUE, "1"), Param("utm_source", FALSE, "x"),
      Param("utm_source", TRUE, "x"), Param("ref", FALSE, "y") }

Queries == SeqsUpTo(Params, MaxParams)

\* https://a.com/, https://a.com/p and https://a.com/p/, the path in lower
\* or upper case, with every query; and two strings that do not parse.
UrlInputs ==
    { Url(FALSE, "a.com", path[1], path[2], up, query) :
        path \in { << <<>>, TRUE >>, << <<1>>, FALSE >>, << <<1>>, TRUE >> },
        up \in BOOLEAN, query \in Queries }
        \cup { RawUrl("not a url", FALSE), RawUrl("not a url", TRUE) }

InitUrl == InitStore

ApplyCanonicalizeUrl ==
    /\ applied = NoApplication
    /\ \E url \in UrlInputs :
        Apply("canonicalizeUrl", << url >>, CanonicalizeUrl(url))

ApplyHashUrl ==
    /\ applied = NoApplication
    /\ \E url1 \in UrlInputs, query \in Queries :
        /\ url1.ok
        /\ Apply("hashUrl", << url1, [ url1 EXCEPT !.query = query ] >>,
                 << HashUrl(url1), HashUrl([ url1 EXCEPT !.query = query ]) >>)

NextUrl == ApplyCanonicalizeUrl \/ ApplyHashUrl

SpecUrl == InitUrl /\ [][NextUrl]_vars

\* C24: canonicalizeUrl(canonicalizeUrl(u)) = canonicalizeUrl(u) for every
\* string u, parseable or not, whatever the letter case of its query
\* parameter names.
C24_Idempotent ==
    applied.fn = "canonicalizeUrl" => CanonicalizeUrl(applied.value) = applied.value

\* The parameters of a query that are not on the tracking deny-list.
NotTracking(query) == SelectSeq(query, LAMBDA q : ~(q.k \in trackingParams /\ ~q.up))

\* Whether two queries hold the same parameters, each as many times, in
\* some order.
SameParams(q1, q2) ==
    /\ Len(q1) = Len(q2)
    /\ \A q \in Range(q1) \cup Range(q2) :
          Cardinality({ i \in 1..Len(q1) : q1[i] = q }) =
          Cardinality({ i \in 1..Len(q2) : q2[i] = q })

\* C25: the canonical form of a parseable URL has no parameter of the
\* tracking deny-list, has its parameters ordered by key and is in lower
\* case; two URLs that differ only in tracking parameters or in the order of
\* their query parameters have the same canonical form and the same hashUrl
\* value, and equal canonical forms have equal hashes.
C25_TrackingAndOrder ==
    /\ (applied.fn = "canonicalizeUrl" /\ applied.args[1].ok) =>
          LET query == applied.value.query
          IN  /\ \A i \in 1..Len(query) : query[i].k \notin trackingParams
              /\ \A i \in 1..Len(query) : \A j \in (i + 1)..Len(query) :
                    ~KeyLess(query[j], query[i])
              /\ ~applied.value.up
              /\ \A i \in 1..Len(query) : ~query[i].up
    /\ applied.fn = "hashUrl" =>
          /\ SameParams(NotTracking(applied.args[1].query),
                        NotTracking(applied.args[2].query)) =>
                /\ CanonicalizeUrl(applied.args[1]) = CanonicalizeUrl(applied.args[2])
                /\ applied.value[1] = applied.value[2]
          /\ CanonicalizeUrl(applied.args[1]) = CanonicalizeUrl(applied.args[2]) =>
                applied.value[1] = applied.value[2]

\* C26: for a parseable URL whose path ends in a single "/" and is not the
\* bare root, with or without a query string, canonicalizeUrl gives what it
\* gives for the same URL without that slash; the bare root keeps its slash.
C26_TrailingSlash ==
    (applied.fn = "canonicalizeUrl" /\ applied.args[1].ok) =>
        /\ (applied.args[1].segs # <<>> /\ applied.args[1].slash) =>
              applied.value = CanonicalizeUrl([ applied.args[1] EXCEPT !.slash = FALSE ])
        /\ applied.args[1].segs = <<>> => applied.value.slash

(***************************************************************************)
(* Properties of the DeduplicationResult (specification SpecDedup).        *)
(***************************************************************************)
\* The URLs of the items of a list.
UrlsOf(items) == { items[k].url : k \in 1..Len(items) }

\* C28: finalCount is the length of items, and originalCount is the sum of
\* urlDuplicatesRemoved, nearDuplicatesRemoved, the number of items dropped
\* by the domain cap and finalCount; every stage counts exactly the items it
\* removed, so no item is counted twice.
C28_StatsConserved ==
    Returned0 =>
        LET stats == result.stats
            capDropped == Len(result.contentDeduped) - Len(result.items)
        IN  /\ stats.finalCount = Len(result.items)
            /\ stats.originalCount = Len(call.items)
            /\ stats.originalCount =
                  stats.urlDuplicatesRemoved + stats.nearDuplicatesRemoved
                      + capDropped + stats.finalCount
            /\ stats.urlDuplicatesRemoved = Len(call.items) - Len(result.urlDeduped)
            /\ stats.nearDuplicatesRemoved =
                  Len(result.urlDeduped) - Len(result.contentDeduped)
            /\ capDropped >= 0
            /\ Range(result.items) \subseteq Range(result.contentDeduped)
            /\ Range(result.contentDeduped) \subseteq Range(result.urlDeduped)
            /\ Range(result.urlDeduped) \subseteq Range(call.items)

\* A call in which URL-level dedup, content-level dedup and the domain cap
\* each removed an item and an item was left.
C28_Witness ==
    /\ Returned0
    /\ result.stats.urlDuplicatesRemoved > 0
    /\ result.stats.nearDuplicatesRemoved > 0
    /\ Len(result.contentDeduped) > Len(result.items)
    /\ result.items # <<>>

\* C29: in every entry of duplicateGroups the URL reported as kept is the URL
\* of the item that survived that dedup step and every other URL of the
\* entry is the URL of an item the step removed.
C29_KeptSurvives ==
    Returned0 =>
        \A g \in 1..Len(result.duplicateGroups) :
            LET group == result.duplicateGroups[g]
                survivors == IF group.type = "url" THEN UrlsOf(result.urlDeduped)
                             ELSE UrlsOf(result.contentDeduped)
            IN  /\ group.kept \in survivors
                /\ \A u \in Range(group.urls) : u # group.kept => u \notin survivors

(***************************************************************************)
(* The analysis record of a streamed request (specification Spec).         *)
(***************************************************************************)
\* C30: the analysis record created by the route leaves 'processing' and
\* ends in a terminal status, whatever happens during the run (a pipeline
\* error, an output that fails validation, a client that disconnects at any
\* point, the analyze and assemble stages included): once the route's
\* handler has finished, the status is 'completed' or 'failed'.
C30_RecordTerminates ==
    pc = "done" => record.status \in { "completed", "failed" }

====
